---- MODULE Spec2Model ----
(***************************************************************************)
(* A model of the rango framework's Data Access Layer (the three ORM       *)
(* implementations shipped in the repository), of the Model Layer built    *)
(* on it, of the router and of the request dispatcher.                     *)
(*                                                                         *)
(* Part A: the SQL engine as the driver (sqlite3) presents it.             *)
(* Part B: ORM - connections, the mutex, execute/insert/update/delete.     *)
(* Part C: Model - an instance of a declared model, save/delete/re-read.   *)
(* Part D: the template app's user routes over the template model User.    *)
(* Part E: SimpleRouter - add_route and resolve.                           *)
(* Part F: App - add_route and the wrapped handler of a request.           *)
(* Part G: QuerySet - the query builders and all / first / count.          *)
(* Part H: create_table - the schema, its indexes and its rows.            *)
(* Part I: Model._init_meta - the metadata of the model types.             *)
(* Part J: SimpleRequest - parse_body and json() on one request.           *)
(***************************************************************************)
EXTENDS Integers, Sequences, FiniteSets, TLC

\* ---------------------------------------------------------------- bounds
MaxId == 2          \* primary keys 1..MaxId
MaxBulk == 1        \* number of bulk calls a behaviour may start
BulkLen == 2        \* rows per bulk call
MaxCloses == 1      \* number of ORM.close calls in a behaviour
MaxRowId == 1       \* largest primary key of the Model Layer's table
MaxNeg == 1         \* primary keys below zero: -MaxNeg..-1
MaxTime == 1        \* values datetime.now() may return: 1..MaxTime
MaxRereads == 2     \* re-reads of the row after one save
MaxBuilders == 2    \* builders Model.objects() hands out
MaxChain == 3       \* filter and order_by calls on the one builder
MaxShared == 2      \* filter calls over several builders
MaxLimit == 2       \* arguments of limit(): 0..MaxLimit
MaxOffset == 1      \* arguments of offset(): 0..MaxOffset
MaxSchemaRows == 2  \* rows inserted into the table create_table made
MaxJsonCalls == 3   \* json() calls of the handler on one request

\* ---------------------------------------------------------------- values
Ids == 1..MaxId
\* a Python int outside the signed 64-bit range: the driver cannot bind it
Huge == MaxId + 1
\* a record of a bulk list that lacks the column of the first record
NoKey == 0
RowIds == Ids \cup {Huge, NoKey}
Absent == -1
Batches == 0..MaxBulk
Tables == [Ids -> Batches \cup {Absent}]
EmptyTable == [i \in Ids |-> Absent]
NoTxn == [open |-> FALSE, wl |-> FALSE, tbl |-> EmptyTable]

Threads == {"loop", "worker"}
Ctx == {"a", "b", "w"}
\* request-handler tasks a and b run on the event-loop thread, w is a thread
ThreadOf(c) == IF c = "w" THEN "worker" ELSE "loop"
Variants == {"build", "env", "legacy"}

VARIABLES
  variant,     \* which ORM implementation the process runs
  lock,        \* ORM.lock: the holder, or "free"
  pc,          \* per context: position inside the current ORM call
  op,          \* per context: the current call
  ret,         \* the call that returned in the last step, and its outcome
  committed,   \* the table as stored in the database file
  txn,         \* per thread: the connection's open transaction
  conn,        \* per thread: _local.connection (0: attribute absent)
  cursor,      \* per thread: _local.cursor, by its connection (0: absent)
  live,        \* connections opened and not closed
  nconn,       \* connections opened so far
  closes,      \* ORM.close calls so far
  bulks,       \* per bulk call: who issued it and how many rows it holds
  touched,     \* bulk calls whose rows a later DELETE/UPDATE changed
  owner,       \* per connection: the context whose use created it
  wasClosed,   \* per thread: ORM.close has closed a connection of it
  products,    \* Model Layer: the rows of the model's table, by primary key
  inst,        \* Model Layer: the attributes of the model instance
  mret,        \* Model Layer: the last operation on the instance, its outcome
  users,       \* template app: the rows of the users table, by primary key
  resp,        \* template app: the response to the last request
  scn,         \* template app: how far the requests so far follow the scenario
  routes,      \* SimpleRouter.routes: the registrations, in dict order
  resolved,    \* SimpleRouter: the last call of resolve and its outcome
  dispatcher,  \* App: which implementation of App, "none" before App()
  debug,       \* App.debug
  served,      \* App.app.router: the wrapped handlers the transport serves
  req,         \* App: the request in hand, from delivery to its answer
  uinst,       \* Model Layer: the attributes of one User instance
  uret,        \* Model Layer: the last operation on users and its outcome
  qs,          \* QuerySet: the state of each builder
  qret,        \* QuerySet: the last call on a builder and its result
  schema,      \* create_table: the table, its indexes and its rows
  sret,        \* create_table: the last statement on the schema
  race,        \* Model.save in steps: where each context is in its save
  meta,        \* Model._meta: the metadata stored on each model type
  mfirst,      \* Model._meta as each type saw it on its first use
  mlast,       \* the last use of a type's metadata
  sreq         \* SimpleRequest: the request, its cached JSON and its decodes

ormVars == <<variant, lock, pc, op, ret, committed, txn, conn, cursor, live,
             nconn, closes, bulks, touched, owner, wasClosed>>
modelVars == <<products, inst, mret>>
appVars == <<users, resp, scn>>
routerVars == <<routes, resolved>>
dispVars == <<dispatcher, debug, served, req>>
userVars == <<uinst, uret>>
queryVars == <<qs, qret>>
schemaVars == <<schema, sret>>
raceVars == <<race>>
metaVars == <<meta, mfirst, mlast>>
sreqVars == <<sreq>>
vars == <<ormVars, modelVars, appVars, routerVars, dispVars, userVars,
          queryVars, schemaVars,
          raceVars,
          metaVars,
          sreqVars>>
\* what the actions of one layer leave alone
notOrmVars == <<modelVars, appVars, routerVars, dispVars, userVars, queryVars,
  schemaVars,
  raceVars,
  metaVars,
  sreqVars>>
notModelVars == <<ormVars, appVars, routerVars, dispVars, userVars, queryVars,
  schemaVars,
  raceVars,
  metaVars,
  sreqVars>>
notAppVars == <<ormVars, modelVars, routerVars, dispVars, userVars, queryVars,
  schemaVars,
  raceVars,
  metaVars,
  sreqVars>>
notRouterVars == <<ormVars, modelVars, appVars, dispVars, userVars, queryVars,
  schemaVars,
  raceVars,
  metaVars,
  sreqVars>>
notDispVars == <<ormVars, modelVars, appVars, userVars, queryVars,
  schemaVars,
  raceVars,
  metaVars,
  sreqVars>>
\* what the operations on a User instance leave alone, users apart
notUserVars == <<ormVars, modelVars, resp, scn, routerVars, dispVars, queryVars,
  schemaVars,
  raceVars,
  metaVars,
  sreqVars>>
\* what the calls on a builder leave alone
notQueryVars == <<ormVars, modelVars, appVars, routerVars, dispVars, userVars,
                  schemaVars,
  raceVars,
  metaVars,
  sreqVars>>
\* what the statements on the schema leave alone
notSchemaVars == <<ormVars, modelVars, appVars, routerVars, dispVars, userVars,
                   queryVars,
  raceVars,
  metaVars,
  sreqVars>>
\* what the steps of a save leave alone, products apart
notRaceVars == <<ormVars, inst, mret, appVars, routerVars, dispVars, userVars, queryVars, schemaVars,
  metaVars,
  sreqVars>>
\* what a use of the metadata leaves alone
notMetaVars == <<ormVars, modelVars, appVars, routerVars, dispVars, userVars, queryVars, schemaVars, raceVars,
  sreqVars>>
\* what the calls on a SimpleRequest leave alone
notSreqVars == <<ormVars, modelVars, appVars, routerVars, dispVars, userVars, queryVars, schemaVars, raceVars, metaVars>>

\* ======================================================= Part A: the engine
IsDriverErr(e) == e \in {"integrity", "busy", "closed", "syntax"}

\* what a connection reads: its own uncommitted writes, else the stored table
ViewOf(s, stored) == IF s.open /\ s.wl THEN s.tbl ELSE stored

\* one statement on a connection in state s; busy: another connection holds
\* the write lock. DML opens the implicit transaction, binds, then writes.
ExecOne(kind, row, s, stored, busy) ==
  IF kind = "sel" THEN [s |-> s, err |-> "none", rc |-> 0]
  ELSE
    LET b == [s EXCEPT !.open = TRUE]
        w == [s EXCEPT !.open = TRUE, !.wl = TRUE, !.tbl = ViewOf(s, stored)]
    IN IF row.id = Huge THEN [s |-> b, err |-> "overflow", rc |-> 0]
       ELSE IF busy /\ ~s.wl THEN [s |-> b, err |-> "busy", rc |-> 0]
       ELSE CASE kind = "ins" ->
                   IF w.tbl[row.id] # Absent
                   THEN [s |-> w, err |-> "integrity", rc |-> 0]
                   ELSE [s |-> [w EXCEPT !.tbl[row.id] = row.batch],
                         err |-> "none", rc |-> 1]
              [] kind = "del" ->
                   [s |-> [w EXCEPT !.tbl[row.id] = Absent], err |-> "none",
                    rc |-> IF w.tbl[row.id] # Absent THEN 1 ELSE 0]
              [] kind = "upd" ->
                   [s |-> [w EXCEPT !.tbl[row.id] =
                                      IF @ # Absent THEN row.batch ELSE @],
                    err |-> "none",
                    rc |-> IF w.tbl[row.id] # Absent THEN 1 ELSE 0]

\* cursor.executemany / a loop of cursor.execute: the rows in order, stopping
\* at the first error; rows before it stay in the open transaction.
\* lazyKeys: the row tuple is built inside the loop (KeyError part-way).
RECURSIVE ExecRows(_, _, _, _, _, _)
ExecRows(kind, rows, s, stored, busy, lazyKeys) ==
  IF rows = << >> THEN [s |-> s, err |-> "none", rc |-> 0]
  ELSE IF lazyKeys /\ Head(rows).id = NoKey
       THEN [s |-> s, err |-> "keyerror", rc |-> 0]
  ELSE LET r == ExecOne(kind, Head(rows), s, stored, busy)
       IN IF r.err # "none" \/ Len(rows) = 1 THEN r
          ELSE ExecRows(kind, Tail(rows), r.s, stored, busy, lazyKeys)

\* connection.commit(): the stored table afterwards
CommitTxn(s, stored) == ViewOf(s, stored)
\* connection.rollback(): the stored table afterwards
RollbackTxn(s, stored) == stored
\* ========================================================== Part B: the ORM
\* a plain attribute in place of threading.local(): one slot for everybody
LocalShared(c) == "loop"
\* self._local = threading.local(): the slot a context's handles live in
Local(c) == ThreadOf(c)

\* a task runs an ORM call to its end before another task of its thread runs
CanRun(c) == \A d \in Ctx \ {c} : ThreadOf(d) = ThreadOf(c) => pc[d] = "idle"

ConnIds == 1..(Cardinality(Threads) + MaxCloses)
Handle(t) == [conn |-> conn[t], cursor |-> cursor[t], nconn |-> nconn,
              live |-> live, owner |-> owner]
\* ORM.connection: created on first use
WithConnection(h, c) ==
  IF h.conn = 0
  THEN [h EXCEPT !.conn = h.nconn + 1, !.nconn = h.nconn + 1,
                 !.live = h.live \cup {h.nconn + 1},
                 !.owner[h.nconn + 1] = c]
  ELSE h
\* ORM.cursor: created on first use, from ORM.connection
WithCursor(h, c) ==
  IF h.cursor = 0
  THEN LET g == WithConnection(h, c) IN [g EXCEPT !.cursor = g.conn]
  ELSE h
\* a close that keeps the attributes of the closed connection
ClosedKeepsHandles(h) == [h EXCEPT !.live = h.live \ {h.conn}]
\* ORM.close: close the connection and drop both attributes
Closed(h) ==
  [h EXCEPT !.conn = 0, !.cursor = 0, !.live = h.live \ {h.conn}]
SetHandle(t, h) ==
  /\ conn' = [conn EXCEPT ![t] = h.conn]
  /\ cursor' = [cursor EXCEPT ![t] = h.cursor]
  /\ nconn' = h.nconn
  /\ live' = h.live
  /\ owner' = h.owner

IdleOp == [api |-> "none", kind |-> "none", bulk |-> FALSE, k |-> 0,
           err |-> "none", arg |-> "none", sql |-> FALSE]
NewOp(api, kind, bulk, k) == [IdleOp EXCEPT !.api = api, !.kind = kind,
                                           !.bulk = bulk, !.k = k]
NoRet == [c |-> "none", api |-> "none", kind |-> "none", text |-> "none",
          wrote |-> {}, conn |-> 0, arg |-> "none", sql |-> FALSE]
\* what the caller gets back: kind "ok" or the exception, and its message;
\* k: the connection the call's statement ran on, wrote: the ids it wrote;
\* arg: the shape of the data given, sql: a statement reached the cursor
Returned(c, o, k, wrote, kind, text) ==
  [c |-> c, api |-> o.api, kind |-> kind, text |-> text, wrote |-> wrote,
   conn |-> k, arg |-> o.arg, sql |-> o.sql]

\* the ORM methods each implementation offers
Apis(v) == IF v = "legacy"
           THEN {"execute", "insert", "update", "fetchall"}
           ELSE {"execute", "insert", "update", "delete", "query", "is_connected"}
\* methods that run their statement through ORM.execute
ViaExecute(v, api) ==
  \/ api = "execute"
  \/ v = "build" /\ api \in {"update", "delete", "query"}
  \/ v = "env" /\ api \in {"insert", "update", "delete", "query"}
\* connection.commit() follows the statement
Commits(v, api) == api # "fetchall"
\* except clauses that wrap the error and forget connection.rollback()
HandlesNoRollback(v, api, e) ==
  [rb |-> FALSE, raise |-> IF IsDriverErr(e) THEN "http500" ELSE e]
\* the except clauses around the statement: roll back? raise what?
Handles(v, api, e) ==
  CASE v = "build" /\ api = "insert" -> [rb |-> TRUE, raise |-> e]
    [] v = "build" /\ api # "insert" ->
         [rb |-> TRUE, raise |-> IF IsDriverErr(e) THEN "http500" ELSE e]
    [] v # "build" /\ ViaExecute(v, api) ->
         IF IsDriverErr(e) THEN [rb |-> TRUE, raise |-> "http500"]
         ELSE [rb |-> FALSE, raise |-> e]
    [] v = "legacy" /\ api \in {"insert", "update"} ->
         IF IsDriverErr(e) THEN [rb |-> TRUE, raise |-> "http400"]
         ELSE [rb |-> FALSE, raise |-> e]
    [] OTHER -> [rb |-> FALSE, raise |-> e]

\* insert's checks on its argument: "if not data", "if not data[0]", and
\* item[col] for the columns of the first record
InsertCheck(bulk, rows) ==
  IF rows = << >> THEN "valueerror"
  ELSE IF ~bulk THEN "none"
  ELSE IF Head(rows).id = NoKey THEN "valueerror"
  ELSE IF \E j \in 1..Len(rows) : rows[j].id = NoKey THEN "keyerror"
  ELSE "none"

\* the shape of insert's data: {} or [], a list whose first record is {},
\* or records with columns
ArgOf(o, rows) ==
  IF o.api # "insert" THEN "none"
  ELSE IF rows = << >> THEN "empty"
  ELSE IF o.bulk /\ Head(rows).id = NoKey THEN "firstempty"
  ELSE "rows"

SingleRows == {<<[id |-> i, batch |-> 0]>> : i \in Ids \cup {Huge}}
ParamRows(k) == {[j \in 1..BulkLen |-> [id |-> f[j], batch |-> k]] :
                   f \in [1..BulkLen -> Ids \cup {Huge}]}
RecordRows(k) == {[j \in 1..BulkLen |-> [id |-> f[j], batch |-> k]] :
                    f \in [1..BulkLen -> RowIds]}
\* the arguments a call in progress may have been given; env's insert has
\* checked its argument before the mutex is taken
RowsFor(v, o) ==
  CASE o.kind = "sel" -> {<< >>}
    [] o.kind \in {"upd", "del"} -> {<<[id |-> i, batch |-> 0]>> : i \in Ids}
    [] o.kind = "ins" /\ ~o.bulk -> SingleRows
    [] o.kind = "ins" /\ o.bulk /\ o.api = "execute" -> ParamRows(o.k)
    [] OTHER -> {r \in RecordRows(o.k) :
                   v = "env" => InsertCheck(TRUE, r) = "none"}

\* ------------------------------------------- the Model Layer's values
\* the declared fields of the template model Product
Cols == {"id", "name", "price", "created_at"}
\* Python values: t is the type, v the number the value spells
\* the class attribute a declared field is until the instance sets it
FieldObj == [t |-> "field", v |-> 0]
None == [t |-> "none", v |-> 0]
PyInt(n) == [t |-> "int", v |-> n]
\* the str that spells the number n
PyStr(n) == [t |-> "str", v |-> n]
DateTime(k) == [t |-> "datetime", v |-> k]
\* the str the driver's adapter makes of a datetime
IsoStr(k) == [t |-> "isostr", v |-> k]

Keys == (0 - MaxNeg)..MaxRowId
Times == 1..MaxTime
NoRow == [present |-> FALSE, name |-> None, price |-> None,
          created_at |-> None]
EmptyProducts == [i \in Keys |-> NoRow]
\* a dict of the declared fields with nothing in it
NoRecord == [c \in Cols |-> None]
\* Model.__init__(**kwargs): setattr for each keyword given; a declared
\* field not given stays the class attribute
Construct(idv, namev, pricev) ==
  [id |-> idv, name |-> namev, price |-> pricev, created_at |-> FieldObj]
NoMRet == [op |-> "none", kind |-> "none", path |-> "none",
           payloadId |-> FALSE, n0 |-> 0, n1 |-> 0, prev |-> "none",
           rereads |-> 0, args |-> Construct(FieldObj, FieldObj, FieldObj),
           existed |-> FALSE, seen |-> NoRecord, issued |-> FALSE]
InitModelVars ==
  /\ products = EmptyProducts
  /\ inst = Construct(FieldObj, FieldObj, FieldObj)
  /\ mret = NoMRet

\* --------------------------------------------- the template app's values
\* the declared fields of the template model User
UserCols == {"id", "name", "email"}
NoUser == [present |-> FALSE, name |-> None, email |-> None]
EmptyUsers == [i \in Keys |-> NoUser]
\* a request's JSON body or a response's "user" without any key
NoUserRecord == [c \in UserCols |-> None]
NoResp == [route |-> "none", status |-> 0, user |-> NoUserRecord]
NoURet == [op |-> "none", kind |-> "none", path |-> "none", cause |-> "none",
           dict |-> << >>]
InitAppVars ==
  /\ users = EmptyUsers
  /\ uinst = NoUserRecord
  /\ uret = NoURet
  /\ resp = NoResp
  /\ scn = [at |-> "start", user |-> NoUserRecord]

\* ------------------------------------------------- the router's values
NoParams == [n \in {} |-> <<>>]
NoResolved == [method |-> "none", path |-> <<>>, handler |-> "None",
               params |-> NoParams, raised |-> FALSE]
InitRouterVars ==
  /\ routes = <<>>
  /\ resolved = NoResolved

\* --------------------------------------------- the dispatcher's values
NoExc == [kind |-> "none", status |-> 0, type |-> "none", msg |-> "none"]
NoPayload == [n \in {} |-> "none"]
NoReq == [phase |-> "idle", method |-> "none", path |-> <<>>, route |-> 0,
          found |-> TRUE, handler |-> "None", cached |-> FALSE,
          decode |-> "none",
          params |-> NoParams, parsed |-> FALSE, invoked |-> FALSE,
          given |-> NoParams, exc |-> NoExc, via |-> "none", status |-> 0,
          payload |-> NoPayload]
InitDispVars ==
  /\ dispatcher = "none"
  /\ debug = FALSE
  /\ served = <<>>
  /\ req = NoReq

\* a class that has no _meta attribute
NoMeta == [set |-> FALSE, table_name |-> "none", fields |-> {}]
InitOrm ==
  /\ InitModelVars
  /\ sreq = [made |-> FALSE, raw |-> "none", ct |-> "none", parsed |-> FALSE,
             json_data |-> None, decoded |-> 0, calls |-> 0,
             last |-> [op |-> "none", kind |-> "none", value |-> None]]
  /\ meta = [cls \in {"User", "Item", "Admin", "Guest"} |-> NoMeta]
  /\ mfirst = meta
  /\ mlast = [op |-> "none", cls |-> "none", seen |-> NoMeta]
  /\ race = [c \in {"a", "w"} |->
               [pc |-> "idle", self |-> NoRecord, exists |-> FALSE,
                kind |-> "none", lost |-> FALSE]]
  /\ qs = [b \in 1..MaxBuilders |->
             [made |-> FALSE, model_class |-> "none", where |-> << >>,
              params |-> << >>, order_by |-> << >>, limit |-> None,
              offset |-> None, calls |-> << >>, orders |-> << >>]]
  /\ qret = [op |-> "none", b |-> 0, kind |-> "none", rows |-> << >>, n |-> 0]
  /\ schema = [exists |-> FALSE, cols |-> << >>, named |-> {}, auto |-> {},
               rows |-> {}]
  /\ sret = [op |-> "none", kind |-> "none", repeat |-> FALSE,
             before |-> schema]
  /\ InitAppVars
  /\ InitRouterVars
  /\ InitDispVars
  /\ variant \in Variants
  /\ lock = "free"
  /\ pc = [c \in Ctx |-> "idle"]
  /\ op = [c \in Ctx |-> IdleOp]
  /\ ret = NoRet
  /\ committed = EmptyTable
  /\ txn = [t \in Threads |-> NoTxn]
  /\ conn = [t \in Threads |-> 0]
  /\ cursor = [t \in Threads |-> 0]
  /\ live = {}
  /\ nconn = 0
  /\ closes = 0
  /\ bulks = [k \in 1..MaxBulk |-> [by |-> "none", n |-> 0]]
  /\ touched = {}
  /\ owner = [k \in ConnIds |-> "none"]
  /\ wasClosed = [t \in Threads |-> FALSE]

\* the number a new bulk call writes into its rows' batch column
NextBulk == Cardinality({k \in 1..MaxBulk : bulks[k].by # "none"}) + 1

\* a read by context c returned some but not all rows of another context's
\* bulk call (none of whose rows has been deleted or updated since)
PartialRead(c, view) ==
  \E k \in 1..MaxBulk :
    /\ bulks[k].by \notin {"none", c}
    /\ k \notin touched
    /\ LET n == Cardinality({i \in Ids : view[i] = k})
       IN 0 < n /\ n < bulks[k].n

\* the call is entered: the context goes on to take the mutex
Begin(c, o) ==
  /\ pc' = [pc EXCEPT ![c] = "wait"]
  /\ op' = [op EXCEPT ![c] = o]
  /\ bulks' = IF o.k > 0
              THEN [bulks EXCEPT ![o.k] = [by |-> c, n |-> BulkLen]]
              ELSE bulks
  /\ ret' = NoRet
  /\ UNCHANGED <<variant, lock, committed, txn, conn, cursor, live, nconn,
                 closes, touched, owner, wasClosed>>
  /\ UNCHANGED notOrmVars

\* the call returns or raises without having touched the mutex or a handle
Leave(c, o, kind) ==
  /\ ret' = Returned(c, o, 0, {}, kind, "none")
  /\ UNCHANGED <<variant, lock, pc, op, committed, txn, conn, cursor, live,
                 nconn, closes, bulks, touched, owner, wasClosed>>
  /\ UNCHANGED notOrmVars

\* ORM.execute(query, params): one INSERT, or params a list of tuples
CallExecute(c) ==
  /\ pc[c] = "idle" /\ CanRun(c)
  /\ \/ Begin(c, NewOp("execute", "ins", FALSE, 0))
     \/ /\ variant # "legacy" /\ NextBulk <= MaxBulk
        /\ Begin(c, NewOp("execute", "ins", TRUE, NextBulk))

\* ORM.insert(table, data): a record or a list of records
CallInsert(c) ==
  /\ pc[c] = "idle" /\ CanRun(c)
  /\ \/ Begin(c, NewOp("insert", "ins", FALSE, 0))
     \/ /\ NextBulk <= MaxBulk
        /\ Begin(c, NewOp("insert", "ins", TRUE, NextBulk))
     \/ \* data is {} or []
        LET o == [NewOp("insert", "ins", FALSE, 0) EXCEPT !.arg = "empty"] IN
        CASE variant = "legacy" -> Leave(c, o, "ok")
          [] variant = "env" -> Leave(c, o, InsertCheck(FALSE, << >>))
          [] variant = "build" ->
               /\ pc' = [pc EXCEPT ![c] = "except"]
               /\ op' = [op EXCEPT ![c] =
                           [o EXCEPT !.err = InsertCheck(FALSE, << >>)]]
               /\ ret' = NoRet
               /\ UNCHANGED <<variant, lock, committed, txn, conn, cursor,
                              live, nconn, closes, bulks, touched, owner,
                              wasClosed>>
               /\ UNCHANGED notOrmVars
     \/ \* env: a list that fails insert's checks never reaches execute
        /\ variant = "env"
        /\ \E r \in RecordRows(0) :
             /\ InsertCheck(TRUE, r) # "none"
             /\ Leave(c, [NewOp("insert", "ins", TRUE, 0) EXCEPT
                            !.arg = ArgOf(NewOp("insert", "ins", TRUE, 0), r)],
                      InsertCheck(TRUE, r))

\* ORM.update(table, data, where, params)
CallUpdate(c) ==
  /\ pc[c] = "idle" /\ CanRun(c)
  /\ Begin(c, NewOp("update", "upd", FALSE, 0))

\* ORM.delete(table, where, params)
CallDelete(c) ==
  /\ pc[c] = "idle" /\ CanRun(c)
  /\ "delete" \in Apis(variant)
  /\ Begin(c, NewOp("delete", "del", FALSE, 0))

\* ORM.query / ORM.get_one (ORM.fetchall / ORM.fetchone): a read of the table
CallQuery(c) ==
  /\ pc[c] = "idle" /\ CanRun(c)
  /\ Begin(c, NewOp(IF variant = "legacy" THEN "fetchall" ELSE "query",
                    "sel", FALSE, 0))

\* "with self.lock:"
Acquire(c) ==
  /\ pc[c] = "wait" /\ lock = "free"
  /\ lock' = c
  /\ pc' = [pc EXCEPT ![c] = "stmt"]
  /\ ret' = NoRet
  /\ UNCHANGED <<variant, op, committed, txn, conn, cursor, live, nconn,
                 closes, bulks, touched, owner, wasClosed>>
  /\ UNCHANGED notOrmVars

\* the batch numbers of the rows a DELETE or UPDATE is about to change
Touches(kind, rows, view) ==
  IF kind \in {"del", "upd"}
  THEN {view[rows[j].id] : j \in 1..Len(rows)} \ {0, Absent}
  ELSE {}

\* the ids whose rows the statement has written
Wrote(before, after) == {i \in Ids : before[i] # after[i]}

\* a block that gives the mutex back only when its body returns
ExitOnReturn(c, err) == IF err = "none" THEN "free" ELSE c
\* leaving "with self.lock:", by return or by exception: the mutex is free
Exit(c, err) == "free"

\* the body of "with self.lock:": cursor.execute / cursor.executemany on the
\* argument the call was given, then self.connection.commit() and the return.
\* An exception leaves the block, which releases the mutex, and reaches the
\* except clauses. rango.py's update raises HTTPNotFound after its commit
\* when no row matched.
Stmt(c) ==
  /\ pc[c] = "stmt"
  /\ \E rows \in RowsFor(variant, op[c]) :
      LET t == Local(c)
          chk == IF variant = "build" /\ op[c].api = "insert"
                 THEN InsertCheck(op[c].bulk, rows) ELSE "none"
          h == IF chk = "none" THEN WithCursor(Handle(t), c) ELSE Handle(t)
          o == [op[c] EXCEPT !.arg = ArgOf(op[c], rows),
                             !.sql = chk = "none" /\ h.cursor \in h.live]
          busy == \E u \in Threads \ {t} : txn[u].open /\ txn[u].wl
          view == ViewOf(txn[t], committed)
          r == IF chk # "none" THEN [s |-> txn[t], err |-> chk, rc |-> 0]
               ELSE IF h.cursor \notin h.live
               THEN [s |-> txn[t], err |-> "closed", rc |-> 0]
               ELSE IF variant = "legacy" /\ o.api = "insert"
                       /\ Head(rows).id = NoKey
               THEN [s |-> txn[t], err |-> "syntax", rc |-> 0]
               ELSE ExecRows(o.kind, rows, txn[t], committed, busy,
                             variant = "legacy" /\ o.api = "insert")
          wrote == Wrote(view, ViewOf(r.s, committed))
      IN /\ SetHandle(t, h)
         /\ lock' = Exit(c, r.err)
         /\ touched' = IF r.err = "none"
                       THEN touched \cup Touches(o.kind, rows, view)
                       ELSE touched
         /\ IF r.err # "none"
            THEN /\ pc' = [pc EXCEPT ![c] = "except"]
                 /\ op' = [op EXCEPT ![c] = [o EXCEPT !.err = r.err]]
                 /\ txn' = [txn EXCEPT ![t] = r.s]
                 /\ committed' = committed
                 /\ ret' = NoRet
            ELSE /\ pc' = [pc EXCEPT ![c] = "idle"]
                 /\ op' = [op EXCEPT ![c] = IdleOp]
                 /\ txn' = [txn EXCEPT ![t] =
                              IF Commits(variant, o.api) THEN NoTxn ELSE r.s]
                 /\ committed' = IF Commits(variant, o.api)
                                 THEN CommitTxn(r.s, committed) ELSE committed
                 /\ ret' = Returned(c, o, h.cursor, wrote,
                                    IF variant = "legacy" /\ o.api = "update"
                                       /\ r.rc = 0
                                    THEN "http404" ELSE "ok", "none")
  /\ UNCHANGED <<variant, closes, bulks, wasClosed>>
  /\ UNCHANGED notOrmVars

\* the except clauses: self.connection.rollback() where the clause has one,
\* then the exception the caller sees
Except(c) ==
  /\ pc[c] = "except"
  /\ LET t == Local(c)
         o == op[c]
         hd == Handles(variant, o.api, o.err)
         h == IF hd.rb THEN WithConnection(Handle(t), c) ELSE Handle(t)
         dead == hd.rb /\ h.conn \notin h.live
         stored == IF hd.rb /\ ~dead THEN RollbackTxn(txn[t], committed)
                   ELSE committed
     IN /\ SetHandle(t, h)
        /\ txn' = [txn EXCEPT ![t] = IF hd.rb /\ ~dead THEN NoTxn ELSE @]
        /\ committed' = stored
        /\ ret' = IF dead
                  THEN Returned(c, o, h.cursor, {}, "closed", "closed")
                  ELSE Returned(c, o, h.cursor, Wrote(committed, stored),
                                hd.raise,
                                IF IsDriverErr(o.err) THEN o.err ELSE "none")
  /\ pc' = [pc EXCEPT ![c] = "idle"]
  /\ op' = [op EXCEPT ![c] = IdleOp]
  /\ UNCHANGED <<variant, lock, closes, bulks, touched, wasClosed>>
  /\ UNCHANGED notOrmVars

\* ORM.is_connected: entered
CallIsConnected(c) ==
  /\ pc[c] = "idle" /\ CanRun(c)
  /\ "is_connected" \in Apis(variant)
  /\ pc' = [pc EXCEPT ![c] = "ic"]
  /\ op' = [op EXCEPT ![c] = NewOp("is_connected", "sel", FALSE, 0)]
  /\ ret' = NoRet
  /\ UNCHANGED <<variant, lock, committed, txn, conn, cursor, live, nconn,
                 closes, bulks, touched, owner, wasClosed>>
  /\ UNCHANGED notOrmVars

\* ORM.is_connected: self.cursor.execute("SELECT 1"), the mutex not taken;
\* a driver error makes it return False
IsConnected(c) ==
  /\ pc[c] = "ic"
  /\ LET t == Local(c)
         h == WithCursor(Handle(t), c)
     IN /\ SetHandle(t, h)
        /\ ret' = Returned(c, op[c], h.cursor, {}, "ok",
                           IF h.cursor \in h.live THEN "true" ELSE "false")
  /\ pc' = [pc EXCEPT ![c] = "idle"]
  /\ op' = [op EXCEPT ![c] = IdleOp]
  /\ UNCHANGED <<variant, lock, committed, txn, closes, bulks, touched,
                 wasClosed>>
  /\ UNCHANGED notOrmVars

\* ORM.close (App._cleanup calls it on shutdown)
Close(c) ==
  /\ pc[c] = "idle" /\ CanRun(c)
  /\ closes < MaxCloses
  /\ closes' = closes + 1
  /\ LET t == Local(c)
     IN /\ SetHandle(t, Closed(Handle(t)))
        /\ txn' = [txn EXCEPT ![t] = NoTxn]
        /\ wasClosed' = [wasClosed EXCEPT ![t] = @ \/ conn[t] # 0]
  /\ ret' = Returned(c, NewOp("close", "none", FALSE, 0), 0, {}, "ok", "none")
  /\ UNCHANGED <<variant, lock, pc, op, committed, bulks, touched>>
  /\ UNCHANGED notOrmVars

\* the contexts of the transaction model: a task and a worker thread
OrmCtx == {"a", "w"}

NextOrm ==
  \E c \in OrmCtx :
    \/ CallExecute(c)
    \/ CallInsert(c)
    \/ CallUpdate(c)
    \/ CallDelete(c)
    \/ CallQuery(c)
    \/ CallIsConnected(c)
    \/ Acquire(c)
    \/ Stmt(c)
    \/ Except(c)
    \/ IsConnected(c)

SpecOrm == InitOrm /\ [][NextOrm]_vars

\* the mutex under the scheduling the code relies on: a context inside
\* "with self.lock:" finishes its statement and leaves the block, an
\* exception reaches its except clause, and a context blocked in
\* lock.acquire() is not passed over for ever while the mutex keeps being
\* released
NextLock ==
  \E c \in OrmCtx :
    \/ CallInsert(c)
    \/ CallUpdate(c)
    \/ CallQuery(c)
    \/ Acquire(c)
    \/ Stmt(c)
    \/ Except(c)
LockFairness ==
  \A c \in OrmCtx :
    /\ WF_vars(Stmt(c))
    /\ WF_vars(Except(c))
    /\ SF_vars(Acquire(c))
SpecLock == InitOrm /\ [][NextLock]_vars /\ LockFairness

\* the connection model: two tasks of the event loop and a worker thread,
\* reading, writing and closing
NextConn ==
  \E c \in Ctx :
    \/ CallExecute(c)
    \/ CallQuery(c)
    \/ CallIsConnected(c)
    \/ Acquire(c)
    \/ Stmt(c)
    \/ Except(c)
    \/ IsConnected(c)
    \/ Close(c)

SpecConn == InitOrm /\ [][NextConn]_vars


\* ====================================================== Part C: the Model
\* Field.field_type of each declared field
ColType(c) ==
  CASE c \in {"id", "price"} -> "INTEGER"
    [] c = "name" -> "TEXT"
    [] c = "created_at" -> "TIMESTAMP"
\* DateTimeField(auto_now=True)
AutoNow(c) == c = "created_at"
\* Field.null: no field of the model is declared null=True
Nullable(c) == FALSE

\* Python's truth value of an attribute ("if ... and self.id")
Truthy(v) ==
  CASE v.t = "none" -> FALSE
    [] v.t = "int" -> v.v # 0
    [] OTHER -> TRUE
\* the driver can bind the value as a statement parameter
Binds(v) == v.t # "field"
\* what a column of the given type holds once the value is written to it
Stored(type, v) ==
  CASE v.t = "datetime" -> IsoStr(v.v)
    [] v.t = "str" /\ type \in {"INTEGER", "TIMESTAMP"} -> PyInt(v.v)
    [] v.t = "int" /\ type = "TEXT" -> PyStr(v.v)
    [] OTHER -> v

RowCount(rows) == Cardinality({i \in Keys : rows[i].present})
\* the rowid the engine gives a row inserted without one
NextRowId(rows) ==
  IF RowCount(rows) = 0 THEN 1
  ELSE 1 + CHOOSE m \in Keys :
             rows[m].present /\ \A i \in Keys : rows[i].present => i <= m
\* the row a statement's id parameter selects (0 rows for NULL)
Selects(rows, idv) ==
  IF idv.t \in {"int", "str"} /\ idv.v \in Keys /\ rows[idv.v].present
  THEN {idv.v} ELSE {}

\* ORM.get_one("SELECT ... WHERE id = ?", (idv,)): the row as a dict
OrmGetOne(rows, idv) ==
  IF ~Binds(idv) THEN [err |-> "http500", found |-> FALSE, rec |-> NoRecord]
  ELSE IF Selects(rows, idv) = {}
       THEN [err |-> "none", found |-> FALSE, rec |-> NoRecord]
  ELSE LET k == idv.v
       IN [err |-> "none", found |-> TRUE,
           rec |-> [c \in Cols |-> IF c = "id" THEN PyInt(k) ELSE rows[k][c]]]

\* the row an INSERT or UPDATE of data leaves, from the row before
RowOf(old, data) ==
  [present |-> TRUE,
   name |-> IF "name" \in DOMAIN data
            THEN Stored(ColType("name"), data["name"]) ELSE old.name,
   price |-> IF "price" \in DOMAIN data
             THEN Stored(ColType("price"), data["price"]) ELSE old.price,
   created_at |-> IF "created_at" \in DOMAIN data
                  THEN Stored(ColType("created_at"), data["created_at"])
                  ELSE old.created_at]

\* ORM.insert(table, data) with one record: lastrowid, or the exception
\* ("range": the generated id lies beyond the model's keys)
OrmInsert(rows, data) ==
  LET key == IF "id" \in DOMAIN data THEN data["id"].v ELSE NextRowId(rows)
      fail(e) == [err |-> e, rows |-> rows, id |-> 0]
  IN IF \E c \in DOMAIN data : ~Binds(data[c]) THEN fail("binding")
     ELSE IF key \notin Keys THEN fail("range")
     ELSE IF rows[key].present THEN fail("integrity")
     ELSE IF \E c \in Cols \ {"id"} : c \notin DOMAIN data /\ ~Nullable(c)
          THEN fail("integrity")
     ELSE [err |-> "none", rows |-> [rows EXCEPT ![key] = RowOf(NoRow, data)],
           id |-> key]

\* ORM.update(table, data, "id = ?", (idv,)): through ORM.execute
OrmUpdate(rows, data, idv) ==
  IF ~Binds(idv) \/ \E c \in DOMAIN data : ~Binds(data[c])
  THEN [err |-> "http500", rows |-> rows]
  ELSE [err |-> "none",
        rows |-> [i \in Keys |-> IF i \in Selects(rows, idv)
                                  THEN RowOf(rows[i], data) ELSE rows[i]]]

\* ORM.delete(table, "id = ?", (idv,)): through ORM.execute
OrmDelete(rows, idv) ==
  IF ~Binds(idv) THEN [err |-> "http500", rows |-> rows]
  ELSE [err |-> "none",
        rows |-> [i \in Keys |-> IF i \in Selects(rows, idv)
                                  THEN NoRow ELSE rows[i]]]

\* save's payload: id skipped when None, auto_now fields set to now, a
\* None value kept only for a nullable field
SaveData(self, now) ==
  LET val(c) == IF AutoNow(c) THEN DateTime(now) ELSE self[c]
      keep(c) == /\ c = "id" => self.id # None
                 /\ val(c) # None \/ Nullable(c)
  IN [c \in {d \in Cols : keep(d)} |-> val(c)]

\* a save that leaves the attributes as the caller set them
NoRefresh(self, rec) == self
\* "for key, value in saved_data.items(): setattr(self, key, value)"
Refresh(self, rec) == [c \in Cols |-> rec[c]]

\* the end of save: re-read the row by self.id and refresh the attributes
Verify(self, rows, path, pid) ==
  LET saved == OrmGetOne(rows, self.id)
      out(k, obj) == [kind |-> k, path |-> path, payloadId |-> pid,
                      self |-> obj, rows |-> rows]
  IN IF saved.err # "none" THEN out(saved.err, self)
     ELSE IF ~saved.found THEN out("http400", self)
     ELSE out("ok", Refresh(self, saved.rec))

\* Model.save: the outcome, the attributes and the table afterwards. An
\* HTTPException of the ORM is re-raised, any other exception becomes a 400.
save(self, rows, now) ==
  LET data == SaveData(self, now)
      fail(k, path) == [kind |-> k, path |-> path, payloadId |-> FALSE,
                        self |-> self, rows |-> rows]
      wrap(e) == IF e \in {"http500", "range"} THEN e ELSE "http400"
  IN IF Truthy(self.id)
     THEN LET exists == OrmGetOne(rows, self.id)
          IN IF exists.err # "none" THEN fail(exists.err, "none")
             ELSE IF exists.found
             THEN LET u == OrmUpdate(rows, data, self.id)
                  IN IF u.err # "none" THEN fail(u.err, "update")
                     ELSE Verify(self, u.rows, "update", FALSE)
             ELSE LET i == OrmInsert(rows, data)
                  IN IF i.err # "none" THEN fail(wrap(i.err), "insert")
                     ELSE Verify([self EXCEPT !.id = PyInt(i.id)], i.rows,
                                 "insert", "id" \in DOMAIN data)
     ELSE LET d == [c \in DOMAIN data \ {"id"} |-> data[c]]
              i == OrmInsert(rows, d)
          IN IF i.err # "none" THEN fail(wrap(i.err), "insert")
             ELSE Verify([self EXCEPT !.id = PyInt(i.id)], i.rows,
                         "insert", FALSE)

\* the keyword arguments a caller may construct the model with; FieldObj:
\* the keyword is not given
IdArgs == {FieldObj, None, PyStr(MaxRowId)} \cup {PyInt(i) : i \in Keys}
NameArgs == {FieldObj, None, PyInt(7), PyStr(7)}
PriceArgs == {PyInt(3), PyStr(3)}

\* what the operation before this one was, as the next operation sees it
Before(r) ==
  CASE r.op = "new" -> "new"
    [] r.op = "save" /\ r.kind = "ok" -> "saved"
    [] OTHER -> "other"

\* Product(id=.., name=.., price=..)
ModelInit ==
  /\ \E idv \in IdArgs, namev \in NameArgs, pricev \in PriceArgs :
       inst' = Construct(idv, namev, pricev)
  /\ mret' = [NoMRet EXCEPT !.op = "new"]
  /\ UNCHANGED products
  /\ UNCHANGED notModelVars

\* instance.name = value
SetAttr ==
  /\ \E v \in NameArgs \ {FieldObj} :
       /\ v # inst.name
       /\ inst' = [inst EXCEPT !.name = v]
  /\ mret' = [NoMRet EXCEPT !.op = "set"]
  /\ UNCHANGED products
  /\ UNCHANGED notModelVars

\* instance.save()
ModelSave ==
  /\ \E now \in Times :
       LET r == save(inst, products, now)
       IN /\ r.kind # "range"
          /\ inst' = r.self
          /\ products' = r.rows
          /\ mret' = [NoMRet EXCEPT
                        !.op = "save", !.kind = r.kind, !.path = r.path,
                        !.payloadId = r.payloadId,
                        !.n0 = RowCount(products), !.n1 = RowCount(r.rows),
                        !.prev = Before(mret), !.args = inst,
                        !.existed = Selects(products, inst.id) # {}]
  /\ UNCHANGED notModelVars

\* hasattr(self, name): a declared field is found on the class when the
\* instance has not set it
HasAttr(self, name) == name \in Cols
\* instance.delete(): every exception becomes a 400
ModelDelete ==
  /\ LET r == IF HasAttr(inst, "id") THEN OrmDelete(products, inst.id)
               ELSE [err |-> "none", rows |-> products]
     IN /\ products' = r.rows
        /\ mret' = [NoMRet EXCEPT
                      !.op = "delete",
                      !.issued = HasAttr(inst, "id"),
                      !.kind = IF r.err # "none" THEN "http400" ELSE "ok",
                      !.n0 = RowCount(products), !.n1 = RowCount(r.rows),
                      !.prev = Before(mret), !.args = inst,
                      !.existed = Selects(products, inst.id) # {}]
  /\ UNCHANGED inst
  /\ UNCHANGED notModelVars

\* the row read back by the instance's id
ReRead ==
  /\ mret.rereads < MaxRereads
  /\ LET r == OrmGetOne(products, inst.id)
     IN mret' = [mret EXCEPT
                   !.op = "reread",
                   !.kind = IF r.err # "none" THEN r.err
                            ELSE IF r.found THEN "ok" ELSE "none",
                   !.prev = IF Before(mret) = "saved"
                               \/ (mret.op = "reread" /\ mret.prev = "saved")
                            THEN "saved" ELSE "other",
                   !.rereads = @ + 1,
                   !.seen = r.rec]
  /\ UNCHANGED <<products, inst>>
  /\ UNCHANGED notModelVars

InitModel ==
  /\ InitOrm
  /\ variant = "build"

NextModel ==
  \/ ModelInit
  \/ SetAttr
  \/ ModelSave
  \/ ModelDelete
  \/ ReRead

SpecModel == InitModel /\ [][NextModel]_vars

\* ---- Model.save statement by statement. Each of its ORM calls takes the
\* mutex for its own statement only, so between two of them a context of
\* another thread may run a statement of its own on the same table.
RaceCtx == {"a", "w"}
IdleRace == [pc |-> "idle", self |-> NoRecord, exists |-> FALSE,
             kind |-> "none", lost |-> FALSE]
\* the instances the contexts save
RaceArgs ==
  {Construct(idv, PyStr(7), PyInt(3)) :
     idv \in {None} \cup {PyInt(i) : i \in 1..MaxRowId}}
\* save up to its first statement: the probe "SELECT 1 ... WHERE id = ?"
\* when the id is truthy
SaveProbe(c) ==
  \E self \in RaceArgs :
    /\ race[c].pc = "idle"
    /\ race' = [race EXCEPT ![c] =
                  [IdleRace EXCEPT
                     !.pc = "probed", !.self = self,
                     !.exists = Truthy(self.id)
                                /\ OrmGetOne(products, self.id).found]]
    /\ UNCHANGED products
    /\ UNCHANGED notRaceVars
\* save's write: db.update when the probe found the row, db.insert otherwise
SaveWrite(c) ==
  \E now \in Times :
    LET self == race[c].self
        data == SaveData(self, now)
        w == IF race[c].exists
             THEN OrmUpdate(products, data, self.id)
             ELSE OrmInsert(products,
                            IF Truthy(self.id) THEN data
                            ELSE [d \in DOMAIN data \ {"id"} |-> data[d]])
    IN /\ race[c].pc = "probed"
       /\ w.err # "range"
       /\ products' = w.rows
       /\ race' = [race EXCEPT ![c] =
                     IF w.err # "none"
                     THEN [@ EXCEPT !.pc = "done",
                                    !.kind = IF w.err = "http500" THEN "http500"
                                             ELSE "http400"]
                     ELSE [@ EXCEPT !.pc = "written",
                                    !.self = IF race[c].exists THEN self
                                             ELSE [self EXCEPT !.id = PyInt(w.id)]]]
       /\ UNCHANGED notRaceVars
\* save's re-read "SELECT * ... WHERE id = ?": "Failed to save record" when
\* it finds no row
SaveReRead(c) ==
  LET saved == OrmGetOne(products, race[c].self.id)
  IN /\ race[c].pc = "written"
     /\ race' = [race EXCEPT ![c] =
                   IF saved.found
                   THEN [@ EXCEPT !.pc = "done", !.kind = "ok",
                                  !.self = Refresh(race[c].self, saved.rec)]
                   ELSE [@ EXCEPT !.pc = "done", !.kind = "http400",
                                  !.lost = TRUE]]
     /\ UNCHANGED products
     /\ UNCHANGED notRaceVars
\* save returns or raises
SaveReturn(c) ==
  /\ race[c].pc = "done"
  /\ race' = [race EXCEPT ![c] = IdleRace]
  /\ UNCHANGED products
  /\ UNCHANGED notRaceVars
\* instance.delete(): its one statement
RaceDelete(c) ==
  \E k \in 1..MaxRowId :
    /\ race[c].pc = "idle"
    /\ products[k].present
    /\ products' = OrmDelete(products, PyInt(k)).rows
    /\ UNCHANGED race
    /\ UNCHANGED notRaceVars

NextRace ==
  \E c \in RaceCtx :
    \/ SaveProbe(c)
    \/ SaveWrite(c)
    \/ SaveReRead(c)
    \/ SaveReturn(c)
    \/ RaceDelete(c)
SpecRace == InitModel /\ [][NextRace]_vars


\* ======================================================================
\* Part D. The template app's user routes (templates/app/routes.py) over
\* the template model User: id INTEGER PRIMARY KEY, name TEXT NOT NULL,
\* email TEXT NOT NULL UNIQUE. Requests are handled one at a time.
\* ======================================================================

\* another row already holds the e-mail that data would store
EmailTaken(rows, key, data) ==
  /\ "email" \in DOMAIN data
  /\ \E i \in Keys \ {key} :
       rows[i].present /\ rows[i].email = Stored("TEXT", data["email"])

\* the users row an INSERT or UPDATE of data leaves, from the row before
UserRowOf(old, data) ==
  [present |-> TRUE,
   name |-> IF "name" \in DOMAIN data
            THEN Stored("TEXT", data["name"]) ELSE old.name,
   email |-> IF "email" \in DOMAIN data
             THEN Stored("TEXT", data["email"]) ELSE old.email]

\* ORM.get_one on users by id, and QuerySet.filter(id=idv).first(): the
\* row as a dict, which User(**row) turns into an instance
UserGetOne(rows, idv) ==
  IF ~Binds(idv) THEN [err |-> "http500", found |-> FALSE, rec |-> NoUserRecord]
  ELSE IF Selects(rows, idv) = {}
       THEN [err |-> "none", found |-> FALSE, rec |-> NoUserRecord]
  ELSE LET k == idv.v
       IN [err |-> "none", found |-> TRUE,
           rec |-> [id |-> PyInt(k), name |-> rows[k].name,
                    email |-> rows[k].email]]

\* ORM.insert("users", data) with one record
UserInsert(rows, data) ==
  LET key == IF "id" \in DOMAIN data THEN data["id"].v ELSE NextRowId(rows)
      fail(e) == [err |-> e, rows |-> rows, id |-> 0]
  IN IF \E c \in DOMAIN data : ~Binds(data[c]) THEN fail("binding")
     ELSE IF key \notin Keys THEN fail("range")
     ELSE IF rows[key].present \/ EmailTaken(rows, key, data)
          THEN fail("integrity")
     ELSE IF \E c \in UserCols \ {"id"} : c \notin DOMAIN data
          THEN fail("integrity")
     ELSE [err |-> "none",
           rows |-> [rows EXCEPT ![key] = UserRowOf(NoUser, data)],
           id |-> key]

\* ORM.update("users", data, "id = ?", (idv,)): through ORM.execute
UserUpdate(rows, data, idv) ==
  IF ~Binds(idv) \/ \E c \in DOMAIN data : ~Binds(data[c])
  THEN [err |-> "http500", cause |-> "binding", rows |-> rows]
  ELSE IF \E k \in Selects(rows, idv) : EmailTaken(rows, k, data)
  THEN [err |-> "http500", cause |-> "integrity", rows |-> rows]
  ELSE [err |-> "none", cause |-> "none",
        rows |-> [i \in Keys |-> IF i \in Selects(rows, idv)
                                  THEN UserRowOf(rows[i], data) ELSE rows[i]]]

\* ORM.delete("users", "id = ?", (idv,)): through ORM.execute
UserDelete(rows, idv) ==
  IF ~Binds(idv) THEN [err |-> "http500", cause |-> "binding", rows |-> rows]
  ELSE [err |-> "none", cause |-> "none",
        rows |-> [i \in Keys |-> IF i \in Selects(rows, idv)
                                  THEN NoUser ELSE rows[i]]]

\* Model.save on a User: the outcome, the attributes and the table
\* afterwards (User has no auto_now field and no nullable field)
UserSave(self, rows) ==
  LET data == [c \in {d \in UserCols : self[d] # None} |-> self[c]]
      out(k, obj, rs, p, c) ==
        [kind |-> k, self |-> obj, rows |-> rs, path |-> p, cause |-> c]
      wrap(e) == IF e \in {"http500", "range"} THEN e ELSE "http400"
      verify(obj, rs, p) ==
        LET saved == UserGetOne(rs, obj.id)
        IN IF saved.err # "none" THEN out(saved.err, obj, rs, p, "binding")
           ELSE IF ~saved.found THEN out("http400", obj, rs, p, "verify")
           ELSE out("ok", saved.rec, rs, p, "none")
  IN IF Truthy(self.id)
     THEN LET exists == UserGetOne(rows, self.id)
          IN IF exists.err # "none"
             THEN out(exists.err, self, rows, "none", "binding")
             ELSE IF exists.found
             THEN LET u == UserUpdate(rows, data, self.id)
                  IN IF u.err # "none"
                     THEN out(u.err, self, rows, "update", u.cause)
                     ELSE verify(self, u.rows, "update")
             ELSE LET i == UserInsert(rows, data)
                  IN IF i.err # "none"
                     THEN out(wrap(i.err), self, rows, "insert", i.err)
                     ELSE verify([self EXCEPT !.id = PyInt(i.id)], i.rows,
                                 "insert")
     ELSE LET d == [c \in DOMAIN data \ {"id"} |-> data[c]]
              i == UserInsert(rows, d)
          IN IF i.err # "none"
             THEN out(wrap(i.err), self, rows, "insert", i.err)
             ELSE verify([self EXCEPT !.id = PyInt(i.id)], i.rows, "insert")

\* Model.save while the engine refuses the statement it is given (the
\* database is locked): the first statement of save raises
\* sqlite3.OperationalError, in ORM.execute under get_one when the id is
\* truthy, in ORM.insert otherwise
UserSaveBusy(self, rows) ==
  [kind |-> IF Truthy(self.id) THEN "http500" ELSE "http400",
   self |-> self, rows |-> rows,
   path |-> IF Truthy(self.id) THEN "none" ELSE "insert", cause |-> "busy"]

\* the JSON bodies of POST /api/users: a key that is not sent is FieldObj,
\* which is also what User(**data) leaves the attribute at
BodyIds == {FieldObj, None} \cup {PyInt(i) : i \in Keys}
BodyNames == {FieldObj, None, PyStr(7)}
BodyEmails == {FieldObj, PyStr(8), PyStr(9)}
Bodies == [id : BodyIds, name : BodyNames, email : BodyEmails]
\* the {id} segment of /api/users/{id}
PathIds == {PyStr(i) : i \in Keys}

\* the scenario: POST without id on the empty table, GET 1, DELETE 1, GET 1
Follows(at, route, arg) ==
  CASE at = "start" /\ route = "create_user" /\ users = EmptyUsers
         /\ arg.id = FieldObj /\ arg.name = PyStr(7) /\ arg.email # FieldObj
         -> "created"
    [] at = "created" /\ route = "get_user" /\ arg = PyStr(1) -> "read"
    [] at = "read" /\ route = "delete_user" /\ arg = PyStr(1) -> "deleted"
    [] at = "deleted" /\ route = "get_user" /\ arg = PyStr(1) -> "gone"
    [] OTHER -> "off"
Answer(route, arg, status, user) ==
  /\ resp' = [route |-> route, status |-> status, user |-> user]
  /\ scn' = [at |-> Follows(scn.at, route, arg),
             user |-> IF Follows(scn.at, route, arg) = "created"
                      THEN [id |-> PyInt(1), name |-> arg.name,
                            email |-> arg.email]
                      ELSE scn.user]

\* POST /api/users with a JSON object
create_user ==
  \E body \in Bodies :
    LET data == IF body.id = None THEN [body EXCEPT !.id = FieldObj] ELSE body
        r == UserSave(data, users)
    IN IF body.name = FieldObj \/ body.email = FieldObj
       THEN /\ Answer("create_user", body, 400, NoUserRecord)
            /\ UNCHANGED <<users, notAppVars>>
       ELSE /\ r.kind # "range"
            /\ users' = r.rows
            /\ IF r.kind = "ok"
               THEN Answer("create_user", body, 201, r.self)
               ELSE Answer("create_user", body, 400, NoUserRecord)
            /\ UNCHANGED notAppVars

\* GET /api/users/{id}
get_user ==
  \E id \in PathIds :
    LET u == UserGetOne(users, id)
    IN /\ IF u.found
          THEN Answer("get_user", id, 200, u.rec)
          ELSE Answer("get_user", id, 404, NoUserRecord)
       /\ UNCHANGED <<users, notAppVars>>

\* DELETE /api/users/{id}
delete_user ==
  \E id \in PathIds :
    LET u == UserGetOne(users, id)
        d == UserDelete(users, u.rec.id)
    IN /\ IF ~u.found
          THEN /\ Answer("delete_user", id, 404, NoUserRecord)
               /\ UNCHANGED users
          ELSE /\ users' = d.rows
               /\ Answer("delete_user", id,
                         IF d.err = "none" THEN 200 ELSE 400, NoUserRecord)
       /\ UNCHANGED notAppVars

\* User(id=..., name=..., email=...); a keyword not given is FieldObj
UserNew ==
  /\ uinst' \in Bodies
  /\ uret' = [NoURet EXCEPT !.op = "new"]
  /\ UNCHANGED <<users, notUserVars>>

\* user.save()
UserModelSave ==
  \E busy \in BOOLEAN :
    LET r == IF busy THEN UserSaveBusy(uinst, users) ELSE UserSave(uinst, users)
    IN /\ r.kind # "range"
       /\ users' = r.rows
       /\ uinst' = r.self
       /\ uret' = [NoURet EXCEPT !.op = "save", !.kind = r.kind,
                                 !.path = r.path, !.cause = r.cause]
       /\ UNCHANGED notUserVars

\* user.delete(): every exception becomes an HTTPBadRequest
UserModelDelete ==
  \E busy \in BOOLEAN :
    LET d == IF busy
             THEN [err |-> "http500", cause |-> "busy", rows |-> users]
             ELSE UserDelete(users, uinst.id)
    IN /\ users' = d.rows
       /\ uret' = [NoURet EXCEPT
                     !.op = "delete",
                     !.kind = IF d.err = "none" THEN "ok" ELSE "http400",
                     !.path = "delete", !.cause = d.cause]
       /\ UNCHANGED <<uinst, notUserVars>>

\* orm.execute("INSERT INTO users (name, email) VALUES (?, ?)", params):
\* every sqlite3.Error becomes an HTTPInternalServerError
UserExecute ==
  \E busy \in BOOLEAN, namev \in BodyNames \ {FieldObj},
     emailv \in BodyEmails \ {FieldObj} :
    LET i == UserInsert(users, [name |-> namev, email |-> emailv])
        failed == busy \/ i.err # "none"
    IN /\ i.err # "range"
       /\ users' = IF failed THEN users ELSE i.rows
       /\ uret' = [NoURet EXCEPT
                     !.op = "execute",
                     !.kind = IF failed THEN "http500" ELSE "ok",
                     !.path = "insert",
                     !.cause = IF busy THEN "busy" ELSE i.err]
       /\ UNCHANGED <<uinst, notUserVars>>

\* Model.to_dict(): getattr(self, name) for every declared field that
\* hasattr finds; a field the instance has not set is found on the class,
\* where it is the Field object of the declaration
to_dict(self) ==
  [name \in {f \in UserCols : f \in DOMAIN self} |-> self[name]]
\* user.to_dict()
UserToDict ==
  /\ uinst # NoUserRecord
  /\ uret' = [NoURet EXCEPT !.op = "to_dict", !.kind = "ok",
                            !.dict = to_dict(uinst)]
  /\ UNCHANGED <<users, uinst, notUserVars>>

InitUser ==
  /\ InitOrm
  /\ variant = "build"
NextUser ==
  \/ UserNew
  \/ UserModelSave
  \/ UserModelDelete
  \/ UserExecute
  \/ UserToDict
SpecUser == InitUser /\ [][NextUser]_vars

InitApp ==
  /\ InitOrm
  /\ variant = "build"
NextApp ==
  \/ create_user
  \/ get_user
  \/ delete_user
SpecApp == InitApp /\ [][NextApp]_vars

\* ======================================================================
\* Part E. SimpleRouter (router.py; the same class in rango.py). A path
\* is the sequence of its segments between the slashes and a segment is a
\* sequence of tokens: "{" and "}", or a run of other characters.
\* ======================================================================
MaxRoutes == 3

Methods == {"GET", "POST"}
Handlers == {"h1", "h2"}
\* the templates that are registered: /users, /users/me, /users/{id}
\* and /{a}-{b}
Templates == {<<<<"users">>>>, <<<<"users">>, <<"me">>>>,
              <<<<"users">>, <<"{", "id", "}">>>>,
              <<<<"{", "a", "}", "-", "{", "b", "}">>>>}
\* the paths that are requested: /users, /users/me, /users/7, /me, /7-me
\* and /users/, whose last segment is empty
Paths == {<<<<"users">>>>, <<<<"users">>, <<"me">>>>,
          <<<<"users">>, <<"7">>>>, <<<<"me">>>>, <<<<"7", "-", "me">>>>,
          <<<<"users">>, << >>>>}
\* what Python's re accepts as the name of a group
Identifiers == {"id", "a", "b"}

\* re.sub(r'{([^/]+)}', r'(?P<\1>[^/]+)', path) on one segment: the
\* leftmost "{" and, [^/]+ being greedy, the last "}" of the segment
Opens(seg) ==
  {i \in 1..Len(seg) : seg[i] = "{" /\ \E j \in (i + 2)..Len(seg) : seg[j] = "}"}
ConvertSeg(seg) ==
  IF Opens(seg) = {}
  THEN [group |-> FALSE, pre |-> seg, name |-> <<>>, post |-> <<>>]
  ELSE LET i == CHOOSE k \in Opens(seg) : \A l \in Opens(seg) : k <= l
           j == CHOOSE k \in (i + 2)..Len(seg) :
                  /\ seg[k] = "}"
                  /\ \A l \in (i + 2)..Len(seg) : seg[l] = "}" => l <= k
       IN [group |-> TRUE, pre |-> SubSeq(seg, 1, i - 1),
           name |-> SubSeq(seg, i + 1, j - 1),
           post |-> SubSeq(seg, j + 1, Len(seg))]
Convert(path) == [i \in 1..Len(path) |-> ConvertSeg(path[i])]

\* re compiles the pattern: every group name is an identifier and no two
\* groups have the same name
Compiles(pattern) ==
  LET groups == {i \in 1..Len(pattern) : pattern[i].group}
  IN /\ \A i \in groups :
          Len(pattern[i].name) = 1 /\ pattern[i].name[1] \in Identifiers
     /\ \A i, j \in groups : pattern[i].name = pattern[j].name => i = j

\* re.match(f'^{pattern}$', path), segment by segment
MatchSeg(cs, seg) ==
  IF ~cs.group THEN seg = cs.pre
  ELSE /\ Len(seg) > Len(cs.pre) + Len(cs.post)
       /\ SubSeq(seg, 1, Len(cs.pre)) = cs.pre
       /\ SubSeq(seg, Len(seg) - Len(cs.post) + 1, Len(seg)) = cs.post
Matches(pattern, path) ==
  /\ Len(pattern) = Len(path)
  /\ \A i \in 1..Len(path) : MatchSeg(pattern[i], path[i])
\* match.groupdict()
GroupDict(pattern, path) ==
  LET groups == {i \in 1..Len(pattern) : pattern[i].group}
      at(n) == CHOOSE i \in groups : pattern[i].name = <<n>>
  IN [n \in {pattern[i].name[1] : i \in groups} |->
        SubSeq(path[at(n)], Len(pattern[at(n)].pre) + 1,
               Len(path[at(n)]) - Len(pattern[at(n)].post))]

\* what a template means: "{", a name, "}" is a placeholder that stands
\* for a non-empty part of one segment, everything else stands for itself
Placeholders(path) ==
  {path[i][k + 1] : <<i, k>> \in
     {x \in (1..Len(path)) \X (1..5) :
        /\ x[2] + 2 <= Len(path[x[1]])
        /\ path[x[1]][x[2]] = "{" /\ path[x[1]][x[2] + 2] = "}"}}
RECURSIVE Fill(_, _)
Fill(seg, b) ==
  IF seg = <<>> THEN <<>>
  ELSE IF Len(seg) >= 3 /\ seg[1] = "{" /\ seg[3] = "}"
       THEN b[seg[2]] \o Fill(SubSeq(seg, 4, Len(seg)), b)
  ELSE <<seg[1]>> \o Fill(Tail(seg), b)
\* the parts of the segments of a path
Parts(path) ==
  {SubSeq(path[i], a, z) : <<i, a, z>> \in
     {x \in (1..Len(path)) \X (1..3) \X (1..3) :
        x[2] <= x[3] /\ x[3] <= Len(path[x[1]])}}
Bindings(template, path) ==
  {b \in [Placeholders(template) -> Parts(path)] :
     /\ Len(template) = Len(path)
     /\ \A i \in 1..Len(path) : Fill(template[i], b) = path[i]}
Satisfies(path, template) == Bindings(template, path) # {}
\* self.routes[(method, pattern)] = handler: a new key goes to the end of
\* the dict, a key that is there keeps its place and gets the handler
add_route(rs, method, path, handler) ==
  LET e == [method |-> method, path |-> path, pattern |-> Convert(path),
            handler |-> handler]
      same(i) == rs[i].method = method /\ rs[i].pattern = e.pattern
  IN IF \E i \in 1..Len(rs) : same(i)
     THEN [i \in 1..Len(rs) |-> IF same(i) THEN e ELSE rs[i]]
     ELSE Append(rs, e)

\* SimpleRouter.resolve from the i-th registration on
RECURSIVE ResolveFrom(_, _, _, _)
ResolveFrom(rs, i, method, path) ==
  LET out(h, ps, r) == [method |-> method, path |-> path, handler |-> h,
                        params |-> ps, raised |-> r]
  IN IF i > Len(rs) THEN out("None", NoParams, FALSE)
     ELSE IF rs[i].method # method THEN ResolveFrom(rs, i + 1, method, path)
     ELSE IF ~Compiles(rs[i].pattern) THEN out("None", NoParams, TRUE)
     ELSE IF Matches(rs[i].pattern, path)
          THEN out(rs[i].handler, GroupDict(rs[i].pattern, path), FALSE)
     ELSE ResolveFrom(rs, i + 1, method, path)
resolve(rs, method, path) == ResolveFrom(rs, 1, method, path)

AddRoute ==
  \E m \in Methods, t \in Templates, h \in Handlers :
    /\ Len(add_route(routes, m, t, h)) <= MaxRoutes
    /\ routes' = add_route(routes, m, t, h)
    /\ UNCHANGED <<resolved, notRouterVars>>
Resolve ==
  \E m \in Methods, p \in Paths :
    /\ resolved' = resolve(routes, m, p)
    /\ UNCHANGED <<routes, notRouterVars>>

InitRouter ==
  /\ InitOrm
  /\ variant = "build"
NextRouter ==
  \/ AddRoute
  \/ Resolve
SpecRouter == InitRouter /\ [][NextRouter]_vars

\* ======================================================================
\* Part F. The dispatcher: App.add_route and its wrapped_handler, in the
\* three implementations of App ("rango": rango/app.py, "build":
\* build/lib/rango/app.py, "legacy": rango.py). The transport (aiohttp)
\* hands a request to the wrapped handler of the first served route whose
\* method and template it matches; what it answers to a request that
\* matches no served route never enters App and is not modelled.
\* ======================================================================
MaxServed == 2

Dispatchers == {"rango", "build", "legacy"}
\* the methods routes are registered with; "*" serves every method
AppMethods == {"GET", "POST", "*"}
AppTemplates == {<<<<"users">>>>, <<<<"users">>, <<"{", "id", "}">>>>,
                 <<<<"{", "a", "}", "-", "{", "b", "}">>>>}
ReqMethods == {"GET", "POST", "DELETE"}
\* "if method in ['POST', 'PUT', 'PATCH']"
WriteMethods == {"POST", "PUT", "PATCH"}

\* what a handler does: it returns a response, raises an HTTP exception
\* (its own or the Data Access Layer's) or raises another exception
HandlerOutcomes ==
  {[kind |-> "return", status |-> 200, type |-> "none", msg |-> "none"],
   [kind |-> "http", status |-> 400, type |-> "HTTPBadRequest", msg |-> "m1"],
   [kind |-> "http", status |-> 500, type |-> "HTTPInternalServerError",
    msg |-> "m2"],
   [kind |-> "error", status |-> 0, type |-> "ValueError", msg |-> "m1"],
   [kind |-> "error", status |-> 0, type |-> "KeyError", msg |-> "m2"]}
\* str(e) of the driver's sqlite3.Error, e.g. a UNIQUE constraint's
DriverText == "UNIQUE constraint failed: users.email"
\* ORM.execute: "raise web.HTTPInternalServerError(text=str(e))"
ExecuteFailure ==
  [kind |-> "http", status |-> 500, type |-> "HTTPInternalServerError",
   msg |-> DriverText]
\* Model.save: "raise web.HTTPBadRequest(text=str(e))" around ORM.insert
SaveFailure ==
  [kind |-> "http", status |-> 400, type |-> "HTTPBadRequest",
   msg |-> DriverText]
\* ORM.insert: "except Exception ... raise", the driver's own exception
InsertFailure ==
  [kind |-> "error", status |-> 0, type |-> "IntegrityError",
   msg |-> DriverText]
\* the storage failures a handler lets through
StorageFailures == {ExecuteFailure, SaveFailure, InsertFailure}
HTTPNotFound ==
  [kind |-> "http", status |-> 404, type |-> "HTTPNotFound", msg |-> "Not Found"]
\* the Content-Type values parse_body tells apart
ContentTypes == {"application/json", "application/x-www-form-urlencoded",
                 "multipart/form-data", "text/plain"}
\* the decoder's own exception, were parse_body to let it through
BadBodyRaw ==
  [kind |-> "error", status |-> 0, type |-> "JSONDecodeError", msg |-> "m3"]
\* parse_body: "except Exception as e: raise web.HTTPBadRequest(text=str(e))"
BadBody ==
  [kind |-> "http", status |-> 400, type |-> "HTTPBadRequest", msg |-> "m3"]
\* json(): "except Exception: raise web.HTTPBadRequest(text=...)"
InvalidJson ==
  [kind |-> "http", status |-> 400, type |-> "HTTPBadRequest", msg |-> "m4"]
\* rango.py's SimpleRequest has no json method
NoJsonMethod ==
  [kind |-> "error", status |-> 0, type |-> "AttributeError", msg |-> "m4"]
\* re.error out of SimpleRouter.resolve
ReError == [kind |-> "error", status |-> 0, type |-> "error", msg |-> "m3"]
\* calling the None that resolve returned
NotCallable == [kind |-> "error", status |-> 0, type |-> "TypeError", msg |-> "m3"]

\* App.add_route's path_pattern: rango/app.py rewrites {name} to
\* {name:[^/]*}, which an empty part satisfies; the other two hand the
\* template over as it is, and the transport's own {name} is [^{}/]+
AllowsEmpty(d) == d = "rango"
\* the ways the transport's pattern for the template takes the path
TransportBindings(d, template, path) ==
  LET fillers == IF AllowsEmpty(d) THEN Parts(path) \cup {<< >>}
                 ELSE Parts(path)
  IN {b \in [Placeholders(template) -> fillers] :
        /\ Len(template) = Len(path)
        /\ \A i \in 1..Len(path) : Fill(template[i], b) = path[i]}
\* the served routes the transport matches the request to
Serving(m, p) ==
  {i \in 1..Len(served) :
     /\ served[i].method \in {m, "*"}
     /\ TransportBindings(dispatcher, served[i].path, p) # {}}
\* request.match_info
MatchInfo(template, path) ==
  CHOOSE b \in TransportBindings(dispatcher, template, path) : TRUE

\* every exception is taken for one the boundary has to answer
IsHttpNever(e) == FALSE
\* "except web.HTTPException: raise"
IsHttp(e) == e.kind = "http"
\* the details are sent whatever App.debug is
ErrorPayloadVerbose(dbg, e) ==
  [error |-> e.msg, traceback |-> "tb", type |-> e.type]
\* "except Exception as e": the body of the 500
ErrorPayload(dbg, e) ==
  IF dbg THEN [error |-> e.msg, traceback |-> "tb", type |-> e.type]
  ELSE [error |-> "Internal Server Error"]
\* the request ends with exception e leaving the try block
Fails(r, e) ==
  IF IsHttp(e)
  THEN [r EXCEPT !.phase = "done", !.exc = e, !.via = "raised",
                 !.status = e.status, !.payload = [text |-> e.msg]]
  ELSE [r EXCEPT !.phase = "done", !.exc = e, !.via = "boundary",
                 !.status = 500, !.payload = ErrorPayload(debug, e)]

\* a handler is called although resolve returned none
MissingNever(h) == FALSE
\* "if not handler_func"
Missing(h) == h = "None"

\* App(debug)
AppInit ==
  /\ dispatcher = "none"
  /\ dispatcher' \in Dispatchers
  /\ debug' \in BOOLEAN
  /\ UNCHANGED <<served, req, routerVars, notDispVars>>

\* App.add_route(method, path, handler), before the app serves: the
\* wrapped handler is served by the transport and, in rango.py, the
\* handler is registered with the SimpleRouter
AppAddRoute ==
  \E m \in AppMethods, t \in AppTemplates, h \in Handlers :
    /\ dispatcher # "none"
    /\ req.phase = "idle"
    /\ Len(served) < MaxServed
    /\ \A i \in 1..Len(served) : <<served[i].method, served[i].path>> # <<m, t>>
    /\ served' = Append(served, [method |-> m, path |-> t, handler |-> h])
    /\ routes' = IF dispatcher = "legacy" THEN add_route(routes, m, t, h)
                 ELSE routes
    /\ UNCHANGED <<dispatcher, debug, req, resolved, notDispVars>>

\* the transport calls wrapped_handler(request)
Deliver ==
  \E m \in ReqMethods, p \in Paths :
    /\ req.phase = "idle"
    /\ Serving(m, p) # {}
    /\ req' = [NoReq EXCEPT
                 !.phase = "entered", !.method = m, !.path = p,
                 !.route = CHOOSE i \in Serving(m, p) :
                             \A j \in Serving(m, p) : i <= j]
    /\ UNCHANGED <<dispatcher, debug, served, routerVars, notDispVars>>

\* wrapped_handler up to the parsing of the body
Enter ==
  /\ req.phase = "entered"
  /\ LET route == served[req.route]
         r == resolve(routes, req.method, req.path)
     IN CASE dispatcher = "rango" ->
               /\ req' = [req EXCEPT
                            !.handler = route.handler,
                            !.params = MatchInfo(route.path, req.path),
                            !.phase = IF route.method \in WriteMethods
                                      THEN "parse" ELSE "call"]
               /\ UNCHANGED resolved
          [] dispatcher = "build" ->
               /\ req' = [req EXCEPT !.handler = route.handler,
                                     !.params = NoParams, !.phase = "call"]
               /\ UNCHANGED resolved
          [] dispatcher = "legacy" ->
               /\ resolved' = r
               /\ req' = IF r.raised THEN Fails(req, ReError)
                         ELSE IF Missing(r.handler)
                         THEN Fails([req EXCEPT !.found = FALSE], HTTPNotFound)
                         ELSE [req EXCEPT !.found = r.handler # "None",
                                          !.handler = r.handler,
                                          !.params = r.params,
                                          !.phase = "parse"]
  /\ UNCHANGED <<dispatcher, debug, served, routes, notDispVars>>

\* await simple_request.parse_body(request): the body is well-formed for
\* its content type, or decoding it raises; a JSON body is kept for json()
ParseBody ==
  /\ req.phase = "parse"
  /\ \E ct \in ContentTypes, wellformed \in BOOLEAN :
       req' = IF wellformed
              THEN [req EXCEPT !.parsed = TRUE, !.phase = "call",
                               !.cached = ct = "application/json"
                                          /\ dispatcher # "legacy"]
              ELSE Fails([req EXCEPT !.decode = "parse_body"], BadBody)
  /\ UNCHANGED <<dispatcher, debug, served, routerVars, notDispVars>>

\* response = await handler(simple_request, SimpleResponse)
Call ==
  /\ req.phase = "call"
  /\ \E o \in HandlerOutcomes \cup StorageFailures :
       LET r == [req EXCEPT !.invoked = TRUE, !.given = req.params]
       IN req' = IF req.handler = "None" THEN Fails(req, NotCallable)
                 ELSE IF o.kind = "return"
                 THEN [r EXCEPT !.phase = "done", !.via = "handler",
                                !.status = o.status]
                 ELSE Fails(r, o)
  /\ UNCHANGED <<dispatcher, debug, served, routerVars, notDispVars>>

\* a handler that awaits request.json() and does not catch what it raises:
\* the kept body is returned, otherwise the body is decoded now
CallJson ==
  /\ req.phase = "call"
  /\ req.handler # "None"
  /\ \E wellformed \in BOOLEAN :
       LET r == [req EXCEPT !.invoked = TRUE, !.given = req.params]
           ok == [r EXCEPT !.phase = "done", !.via = "handler",
                           !.status = 200, !.cached = TRUE]
       IN req' = IF dispatcher = "legacy" THEN Fails(r, NoJsonMethod)
                 ELSE IF req.cached \/ wellformed THEN ok
                 ELSE Fails([r EXCEPT !.decode = "json"], InvalidJson)
  /\ UNCHANGED <<dispatcher, debug, served, routerVars, notDispVars>>

\* the transport sends the answer; the request is over
Respond ==
  /\ req.phase = "done"
  /\ req' = NoReq
  /\ UNCHANGED <<dispatcher, debug, served, routerVars, notDispVars>>

InitDispatch ==
  /\ InitOrm
  /\ variant = "build"
NextDispatch ==
  \/ AppInit
  \/ AppAddRoute
  \/ Deliver
  \/ Enter
  \/ ParseBody
  \/ Call
  \/ CallJson
  \/ Respond
SpecDispatch == InitDispatch /\ [][NextDispatch]_vars

\* ======================================================================
\* Part G. QuerySet (models.py): the builders Model.objects() hands out,
\* the query each builds, and all / first / count over the table people
\* (id INTEGER PRIMARY KEY, name TEXT, age INTEGER).
\* ======================================================================
Builders == 1..MaxBuilders
\* the rows of people; a name is its sequence of characters
People ==
  { [id |-> 1, name |-> <<"a", "n", "n">>, age |-> 2],
    [id |-> 2, name |-> <<"D", "A", "N">>, age |-> 1],
    [id |-> 3, name |-> <<"b", "o", "b">>, age |-> 2] }
\* the keyword arguments of filter(): the key split at "__", and the value
Ops == {"gt", "lt", "gte", "lte", "contains", "in"}
KwArgs ==
  { [field |-> "age", op |-> "", value |-> 2],
    [field |-> "age", op |-> "gt", value |-> 1],
    [field |-> "age", op |-> "lt", value |-> 2],
    [field |-> "id", op |-> "gte", value |-> 2],
    [field |-> "id", op |-> "lte", value |-> 2],
    [field |-> "name", op |-> "contains", value |-> <<"a", "n">>],
    [field |-> "age", op |-> "in", value |-> << >>],
    [field |-> "id", op |-> "in", value |-> <<1, 3>>],
    [field |-> "age", op |-> "ne", value |-> 1] }
\* the arguments of order_by(): a field name, "-" in front or not
OrderArgs == { [minus |-> m, name |-> f] : m \in BOOLEAN, f \in {"age", "id"} }
LimitArgs == 0..MaxLimit
OffsetArgs == 0..MaxOffset

\* QuerySet.__init__
QuerySetInit(cls) ==
  [made |-> TRUE, model_class |-> cls, where |-> << >>, params |-> << >>,
   order_by |-> << >>, limit |-> None, offset |-> None,
   calls |-> << >>, orders |-> << >>]
NoBuilder == [QuerySetInit("none") EXCEPT !.made = FALSE]
\* what the last call on a builder was and what it gave back
NoQRet == [op |-> "none", b |-> 0, kind |-> "none", rows |-> << >>, n |-> 0]
QReturned(o, b, r) ==
  [op |-> o, b |-> b, kind |-> r.kind, rows |-> r.rows, n |-> r.n]

\* filter: the condition one keyword adds to _where, with its placeholders
Conditions(kw) ==
  CASE kw.op = "" -> <<[field |-> kw.field, sql |-> "=", n |-> 1]>>
    [] kw.op = "gt" -> <<[field |-> kw.field, sql |-> ">", n |-> 1]>>
    [] kw.op = "lt" -> <<[field |-> kw.field, sql |-> "<", n |-> 1]>>
    [] kw.op = "gte" -> <<[field |-> kw.field, sql |-> ">=", n |-> 1]>>
    [] kw.op = "lte" -> <<[field |-> kw.field, sql |-> "<=", n |-> 1]>>
    [] kw.op = "contains" -> <<[field |-> kw.field, sql |-> "LIKE", n |-> 1]>>
    [] kw.op = "in" ->
         <<[field |-> kw.field, sql |-> "IN", n |-> Len(kw.value)]>>
    [] OTHER -> << >>
\* filter without the "continue" that ends the "in" branch
ParamsNoContinue(kw) ==
  CASE kw.op = "contains" -> << <<"%">> \o kw.value \o <<"%">> >>
    [] kw.op = "in" -> kw.value \o <<kw.value>>
    [] OTHER -> <<kw.value>>
\* filter: what one keyword adds to _params
Params(kw) ==
  CASE kw.op = "contains" -> << <<"%">> \o kw.value \o <<"%">> >>
    [] kw.op = "in" -> kw.value
    [] OTHER -> <<kw.value>>
\* filter on a builder whose lists every builder shares
filterShared(all, b, kw) ==
  [c \in Builders |->
     IF ~all[c].made THEN all[c]
     ELSE [all[c] EXCEPT !.where = @ \o Conditions(kw),
                         !.params = @ \o Params(kw),
                         !.calls = IF c = b THEN Append(@, kw) ELSE @]]
\* QuerySet.filter(**{key: value}) on builder b; calls remembers the keyword
filter(all, b, kw) ==
  [all EXCEPT ![b].where = @ \o Conditions(kw),
              ![b].params = @ \o Params(kw),
              ![b].calls = Append(@, kw)]
\* QuerySet.order_by(field)
order_by(q, o) ==
  [q EXCEPT !.order_by = Append(@, [field |-> o.name,
                                    dir |-> IF o.minus THEN "DESC" ELSE "ASC"]),
            !.orders = Append(@, o)]

\* ---- the engine's SELECT
Fold(ch) ==
  CASE ch = "A" -> "a" [] ch = "D" -> "d" [] ch = "N" -> "n" [] OTHER -> ch
RECURSIVE Like(_, _)
\* text LIKE pattern: % any run, _ any character, letters without case
Like(p, s) ==
  IF p = << >> THEN s = << >>
  ELSE IF Head(p) = "%"
  THEN Like(Tail(p), s) \/ (s # << >> /\ Like(p, Tail(s)))
  ELSE /\ s # << >>
       /\ Head(p) = "_" \/ Fold(Head(p)) = Fold(Head(s))
       /\ Like(Tail(p), Tail(s))
RECURSIVE Sum(_)
Sum(ns) == IF ns = << >> THEN 0 ELSE Head(ns) + Sum(Tail(ns))
Marks(where) == Sum([i \in 1..Len(where) |-> where[i].n])
\* the parameters bound to the placeholders of the i-th condition
BoundTo(where, params, i) ==
  LET start == Sum([j \in 1..(i - 1) |-> where[j].n])
  IN SubSeq(params, start + 1, start + where[i].n)
Test(row, cond, args) ==
  CASE cond.sql = "=" -> row[cond.field] = args[1]
    [] cond.sql = ">" -> row[cond.field] > args[1]
    [] cond.sql = "<" -> row[cond.field] < args[1]
    [] cond.sql = ">=" -> row[cond.field] >= args[1]
    [] cond.sql = "<=" -> row[cond.field] <= args[1]
    [] cond.sql = "LIKE" -> Like(args[1], row[cond.field])
    [] cond.sql = "IN" ->
         \E k \in 1..Len(args) : row[cond.field] = args[k]
RECURSIVE Less(_, _, _)
\* r1 sorts before r2 under ORDER BY terms; rowid order among equals
Less(r1, r2, terms) ==
  IF terms = << >> THEN r1.id < r2.id
  ELSE LET t == Head(terms)
       IN IF r1[t.field] = r2[t.field] THEN Less(r1, r2, Tail(terms))
          ELSE IF t.dir = "DESC" THEN r1[t.field] > r2[t.field]
          ELSE r1[t.field] < r2[t.field]
Sorted(rows, terms) ==
  CHOOSE s \in [1..Cardinality(rows) -> rows] :
    \A i, j \in 1..Cardinality(rows) : i < j => Less(s[i], s[j], terms)
\* LIMIT n OFFSET m over a result; a missing OFFSET is 0
Window(s, lim, off) ==
  LET m == IF off = None THEN 0 ELSE off.v
      rest == SubSeq(s, m + 1, Len(s))
  IN IF lim = None THEN rest
     ELSE SubSeq(rest, 1, IF lim.v < Len(rest) THEN lim.v ELSE Len(rest))
\* _build_query and the engine: "SELECT <select> FROM people [WHERE ...]
\* [ORDER BY ...] [LIMIT n] [OFFSET m]" with params bound in order. OFFSET
\* without LIMIT is a syntax error and a wrong number of bindings a
\* ProgrammingError, both an HTTPInternalServerError out of ORM.execute.
Select(q, select) ==
  IF q.offset # None /\ q.limit = None
  THEN [kind |-> "http500", rows |-> << >>, n |-> 0]
  ELSE IF Marks(q.where) # Len(q.params)
  THEN [kind |-> "http500", rows |-> << >>, n |-> 0]
  ELSE LET hit == {r \in People :
                     \A i \in 1..Len(q.where) :
                       Test(r, q.where[i], BoundTo(q.where, q.params, i))}
       IN IF select = "*"
          THEN LET s == Window(Sorted(hit, q.order_by), q.limit, q.offset)
               IN [kind |-> "ok", rows |-> [i \in 1..Len(s) |-> s[i].id],
                   n |-> Len(s)]
          ELSE \* the one row of COUNT(*), then LIMIT and OFFSET
               LET s == Window(<<Cardinality(hit)>>, q.limit, q.offset)
               IN [kind |-> "ok", rows |-> s, n |-> Len(s)]
\* QuerySet.all(): the instances, here by their ids
all(q) == Select(q, "*")
\* first() that leaves _limit as the chain set it
firstKeepsLimit(q) ==
  LET r == all(q)
  IN IF r.kind # "ok" \/ r.rows = << >> THEN [r EXCEPT !.n = 0]
     ELSE [r EXCEPT !.rows = <<Head(r.rows)>>, !.n = 1]
\* QuerySet.first() after its "self._limit = 1": results[0] or None
first(q) ==
  LET r == all([q EXCEPT !.limit = PyInt(1)])
  IN IF r.kind # "ok" \/ r.rows = << >> THEN [r EXCEPT !.n = 0]
     ELSE [r EXCEPT !.rows = <<Head(r.rows)>>, !.n = 1]
\* a first() that puts the chain's limit back when it is done
FirstRestoresLimit(q) == q
\* QuerySet.first(): the builder it leaves behind, "self._limit = 1"
FirstSetsLimit(q) == [q EXCEPT !.limit = PyInt(1)]
\* QuerySet.count(): result['COUNT(*)'] of get_one's row, None when the
\* statement returns no row
count(q) ==
  LET r == Select(q, "COUNT(*)")
  IN IF r.kind # "ok" THEN r
     ELSE IF r.rows = << >> THEN [kind |-> "typeerror", rows |-> << >>, n |-> 0]
     ELSE [kind |-> "ok", rows |-> << >>, n |-> Head(r.rows)]

\* filter and order_by calls made so far, over all builders
Chain == Sum([b \in Builders |-> Len(qs[b].calls) + Len(qs[b].orders)])

\* Model.objects(): QuerySet(cls, app.orm)
Objects(b) ==
  /\ ~qs[b].made
  /\ \A c \in Builders : c < b => qs[c].made
  /\ qs' = [qs EXCEPT ![b] = QuerySetInit("Person")]
  /\ qret' = [NoQRet EXCEPT !.op = "objects", !.b = b]
  /\ UNCHANGED notQueryVars
\* the chained calls: at most max filter and order_by calls in a behaviour
Filter(b, max) ==
  \E kw \in KwArgs :
    /\ qs[b].made /\ Chain < max
    /\ qs' = filter(qs, b, kw)
    /\ qret' = NoQRet
    /\ UNCHANGED notQueryVars
OrderBy(b, max) ==
  \E o \in OrderArgs :
    /\ qs[b].made /\ Chain < max
    /\ qs' = [qs EXCEPT ![b] = order_by(@, o)]
    /\ qret' = NoQRet
    /\ UNCHANGED notQueryVars
\* QuerySet.limit(n)
Limit(b) ==
  \E n \in LimitArgs :
    /\ qs[b].made
    /\ qs' = [qs EXCEPT ![b].limit = PyInt(n)]
    /\ qret' = NoQRet
    /\ UNCHANGED notQueryVars
\* QuerySet.offset(n)
Offset(b) ==
  \E n \in OffsetArgs :
    /\ qs[b].made
    /\ qs' = [qs EXCEPT ![b].offset = PyInt(n)]
    /\ qret' = NoQRet
    /\ UNCHANGED notQueryVars
All(b) ==
  /\ qs[b].made
  /\ qret' = QReturned("all", b, all(qs[b]))
  /\ UNCHANGED <<qs, notQueryVars>>
First(b) ==
  /\ qs[b].made
  /\ qs' = [qs EXCEPT ![b] = FirstSetsLimit(@)]
  /\ qret' = QReturned("first", b, first(qs[b]))
  /\ UNCHANGED notQueryVars
Count(b) ==
  /\ qs[b].made
  /\ qret' = QReturned("count", b, count(qs[b]))
  /\ UNCHANGED <<qs, notQueryVars>>

InitQuery ==
  /\ InitOrm
  /\ variant = "build"
\* one builder and the calls chained on it
NextQuery ==
  \E b \in Builders :
    \/ (\A c \in Builders : ~qs[c].made) /\ Objects(b)
    \/ Filter(b, MaxChain)
    \/ OrderBy(b, MaxChain)
    \/ Limit(b)
    \/ Offset(b)
    \/ All(b)
    \/ First(b)
    \/ Count(b)
SpecQuery == InitQuery /\ [][NextQuery]_vars
\* several builders, each filtered and run
NextBuilders ==
  \E b \in Builders :
    \/ Objects(b)
    \/ Filter(b, MaxShared)
    \/ All(b)
SpecBuilders == InitQuery /\ [][NextBuilders]_vars

\* ======================================================================
\* Part H. create_table: the schema of one table, the indexes the engine
\* and ORM.create_table give it, and its rows.
\* ======================================================================
\* Field(field_type, null, unique, primary_key)
Field(type, null, unique, pk) ==
  [field_type |-> type, null |-> null, unique |-> unique, primary_key |-> pk]
\* Field.get_sql_definition, as the words of the column definition
get_sql_definition(f) ==
  <<f.field_type>>
    \o (IF f.primary_key THEN <<"PRIMARY KEY">> ELSE << >>)
    \o (IF ~f.null THEN <<"NOT NULL">> ELSE << >>)
    \o (IF f.unique THEN <<"UNIQUE">> ELSE << >>)
\* the declarations a model may make of its columns id and email
Declared ==
  { [id |-> i, email |-> m] :
      i \in {Field("INTEGER", FALSE, FALSE, TRUE),
             Field("INTEGER", FALSE, FALSE, FALSE)},
      m \in {Field("TEXT", FALSE, TRUE, FALSE), Field("TEXT", FALSE, FALSE, FALSE),
             Field("TEXT", TRUE, TRUE, FALSE)} }
\* Model.create_table: the columns argument built from the fields
ColumnsOf(fields) == [c \in DOMAIN fields |-> get_sql_definition(fields[c])]
Words(dtype) == {dtype[i] : i \in 1..Len(dtype)}
\* 'UNIQUE' in dtype or 'PRIMARY KEY' in dtype
Marked(dtype) == "UNIQUE" \in Words(dtype) \/ "PRIMARY KEY" \in Words(dtype)
\* the engine's own index: one for each UNIQUE column and each PRIMARY KEY
\* that is not the INTEGER PRIMARY KEY, which is the rowid
AutoIndexed(dtype) ==
  \/ "UNIQUE" \in Words(dtype)
  \/ "PRIMARY KEY" \in Words(dtype) /\ dtype[1] # "INTEGER"
NoSchema == [exists |-> FALSE, cols |-> << >>, named |-> {}, auto |-> {},
             rows |-> {}]
NoSRet == [op |-> "none", kind |-> "none", repeat |-> FALSE, before |-> NoSchema]
\* ORM.create_table(table_name, columns): CREATE TABLE IF NOT EXISTS, and in
\* build/lib CREATE INDEX IF NOT EXISTS idx_<table>_<col> for marked columns
create_table(v, s, columns) ==
  LET t == IF s.exists THEN s
           ELSE [exists |-> TRUE, cols |-> columns, named |-> {},
                 auto |-> {c \in DOMAIN columns : AutoIndexed(columns[c])},
                 rows |-> {}]
  IN IF v = "build"
     THEN [t EXCEPT !.named = @ \cup {c \in DOMAIN columns : Marked(columns[c])}]
     ELSE t

CreateTable ==
  \E fields \in Declared :
    /\ schema.exists => schema.cols = ColumnsOf(fields)
    /\ schema' = create_table(variant, schema, ColumnsOf(fields))
    /\ sret' = [op |-> "create_table", kind |-> "ok",
                repeat |-> schema.exists, before |-> schema]
    /\ UNCHANGED notSchemaVars
\* ORM.insert(table, {...}) of a new row
SchemaInsert ==
  \E k \in 1..MaxSchemaRows :
    /\ schema.exists /\ k \notin schema.rows
    /\ schema' = [schema EXCEPT !.rows = @ \cup {k}]
    /\ sret' = [NoSRet EXCEPT !.op = "insert", !.kind = "ok"]
    /\ UNCHANGED notSchemaVars
\* ORM.execute("DROP TABLE ..."): the table goes, and its indexes with it
DropTable ==
  /\ schema.exists
  /\ schema' = NoSchema
  /\ sret' = [NoSRet EXCEPT !.op = "drop", !.kind = "ok"]
  /\ UNCHANGED notSchemaVars

NextSchema ==
  \/ CreateTable
  \/ SchemaInsert
  \/ DropTable
SpecSchema == InitOrm /\ [][NextSchema]_vars

\* ======================================================================
\* Part I. Model._init_meta: the metadata of the model types. User and Item
\* subclass Model, Admin and Guest subclass User.
\* ======================================================================
ModelTypes == {"User", "Item", "Admin", "Guest"}
Parent(cls) == IF cls \in {"Admin", "Guest"} THEN "User" ELSE "Model"
\* cls.__name__.lower()
Lower(cls) ==
  CASE cls = "User" -> "user" [] cls = "Item" -> "item"
    [] cls = "Admin" -> "admin" [] cls = "Guest" -> "guest"
    [] OTHER -> "model"
\* what each class body declares: its own Meta (with or without a
\* table_name) and its own Field attributes; Model declares Meta with
\* abstract = True only
Declares(cls) ==
  CASE cls = "User" ->
         [Meta |-> TRUE, table_name |-> "users", fields |-> {"id", "name"}]
    [] cls = "Item" ->
         [Meta |-> FALSE, table_name |-> "none", fields |-> {"id", "price"}]
    [] cls = "Admin" ->
         [Meta |-> TRUE, table_name |-> "admins", fields |-> {"level"}]
    [] cls = "Guest" ->
         [Meta |-> FALSE, table_name |-> "none", fields |-> {"visits"}]
    [] OTHER -> [Meta |-> TRUE, table_name |-> "none", fields |-> {}]
\* ModelMeta(table_name, fields)
ModelMeta(table_name, fields) ==
  [set |-> TRUE, table_name |-> table_name, fields |-> fields]
\* the methods that begin with _init_meta
MetaUses == {"objects", "save", "create_table"}
\* hasattr(cls, '_meta') and cls._meta: the attribute of the class itself or
\* of the nearest base class that has one
MetaOf(m, cls) ==
  IF m[cls].set THEN m[cls]
  ELSE IF Parent(cls) \in ModelTypes /\ m[Parent(cls)].set THEN m[Parent(cls)]
  ELSE NoMeta
\* cls.Meta: the Meta of the class itself or of the nearest base class
MetaClassOf(cls) ==
  IF Declares(cls).Meta THEN Declares(cls)
  ELSE IF Declares(Parent(cls)).Meta THEN Declares(Parent(cls))
  ELSE Declares("Model")
\* Model._init_meta
init_meta(m, cls) ==
  IF MetaOf(m, cls).set THEN m
  ELSE [m EXCEPT ![cls] =
          ModelMeta(IF MetaClassOf(cls).table_name # "none"
                    THEN MetaClassOf(cls).table_name ELSE Lower(cls),
                    Declares(cls).fields)]

\* cls.objects(), instance.save() or cls.create_table(): cls._init_meta()
\* and then a use of cls._meta
UseMeta ==
  \E cls \in ModelTypes, use \in MetaUses :
    LET m == init_meta(meta, cls)
    IN /\ meta' = m
       /\ mfirst' = IF mfirst[cls].set THEN mfirst
                    ELSE [mfirst EXCEPT ![cls] = MetaOf(m, cls)]
       /\ mlast' = [op |-> use, cls |-> cls, seen |-> MetaOf(m, cls)]
       /\ UNCHANGED notMetaVars

NextMeta == UseMeta
SpecMeta == InitOrm /\ [][NextMeta]_vars

\* ======================================================================
\* Part J. SimpleRequest (request.py): parse_body and json() on one request.
\* ======================================================================
\* the bodies a request may carry: the text of a JSON value, or text that
\* is not JSON
JsonTexts == {"null", "false", "0", "{}", "{\"a\": 1}"}
RawBodies == JsonTexts \cup {"not json"}
\* json.loads: the Python value of a JSON text; null is None
Loads(text) == IF text = "null" THEN None ELSE [t |-> "json", v |-> text]
\* SimpleRequest(request)
NewSimpleRequest(raw, ct) ==
  [made |-> TRUE, raw |-> raw, ct |-> ct, parsed |-> FALSE,
   json_data |-> None, decoded |-> 0, calls |-> 0,
   last |-> [op |-> "none", kind |-> "none", value |-> None]]
\* json(): "if self._json_data is None" is false
IsCached(r) == r.json_data # None
\* await self._request.json() on request r: the value, or the failure
Decode(r) ==
  IF r.raw \in JsonTexts
  THEN [r EXCEPT !.json_data = Loads(r.raw), !.decoded = @ + 1]
  ELSE r

\* the transport hands over a request
SimpleRequestInit ==
  \E raw \in RawBodies, ct \in ContentTypes :
    /\ ~sreq.made
    /\ sreq' = NewSimpleRequest(raw, ct)
    /\ UNCHANGED notSreqVars
\* await simple_request.parse_body(request), before the handler runs
SimpleParseBody ==
  /\ sreq.made /\ ~sreq.parsed /\ sreq.calls = 0
  /\ sreq' =
       IF sreq.ct = "application/json"
       THEN [Decode(sreq) EXCEPT
               !.parsed = TRUE,
               !.last = [op |-> "parse_body",
                         kind |-> IF sreq.raw \in JsonTexts THEN "ok"
                                  ELSE "http400",
                         value |-> None]]
       ELSE [sreq EXCEPT !.parsed = TRUE,
                         !.last = [op |-> "parse_body", kind |-> "ok",
                                   value |-> None]]
  /\ UNCHANGED notSreqVars
\* await request.json() in the handler
SimpleJson ==
  /\ sreq.made /\ sreq.calls < MaxJsonCalls
  /\ sreq.last.kind # "http400" \/ sreq.last.op = "json"
  /\ LET r == IF IsCached(sreq) THEN sreq ELSE Decode(sreq)
         failed == ~IsCached(sreq) /\ sreq.raw \notin JsonTexts
     IN sreq' = [r EXCEPT
                   !.calls = @ + 1,
                   !.last = [op |-> "json",
                             kind |-> IF failed THEN "http400" ELSE "ok",
                             value |-> r.json_data]]
  /\ UNCHANGED notSreqVars

NextRequest ==
  \/ SimpleRequestInit
  \/ SimpleParseBody
  \/ SimpleJson
SpecRequest == InitOrm /\ [][NextRequest]_vars

\* ------------------------------------------------------------ claims C1-C6
\* the context is inside the mutex and about to run its SELECT
AboutToRead(c) == pc[c] = "stmt" /\ op[c].kind = "sel"
\* the context is at a cursor.execute / cursor.executemany
IssuesStatement(c) == pc[c] \in {"stmt", "ic"}
IsWrite(api) == api \in {"execute", "insert", "update", "delete"}
Failed(r) == r.kind \notin {"none", "ok"}

\* C1: a read by one context returns none or all of the rows of a bulk
\* insert run by another context, never a non-empty proper subset, also when
\* the bulk insert fails part-way through.
C1_BulkAllOrNothing ==
  \A c \in Ctx :
    AboutToRead(c) => ~PartialRead(c, ViewOf(txn[Local(c)], committed))

\* C2: every statement is issued while the calling context holds the mutex,
\* so no two contexts execute a statement at the same time.
C2_StatementsUnderMutex ==
  /\ \A c \in Ctx : IssuesStatement(c) => lock = c
  /\ Cardinality({c \in Ctx : IssuesStatement(c)}) <= 1

\* C3: after a write (execute, insert, update, delete) has failed with any
\* kind of error, the calling context's connection has no open transaction.
C3_NoOpenTransactionAfterFailure ==
  (IsWrite(ret.api) /\ Failed(ret)) => ~txn[Local(ret.c)].open

\* C4: execute has committed when it returns: the rows it wrote are in the
\* stored table and nothing is pending; on a driver error it has rolled
\* back, has changed nothing in the stored table and raises an HTTP 500
\* that carries the driver's message.
C4_ExecuteCommitsOrRollsBack ==
  ret.api = "execute" =>
    /\ ret.kind = "ok" =>
         /\ ret.wrote # {}
         /\ \A i \in ret.wrote : committed[i] # Absent
         /\ ~txn[Local(ret.c)].open
    /\ IsDriverErr(ret.text) =>
         /\ ret.kind = "http500"
         /\ ret.wrote = {}
         /\ ~txn[Local(ret.c)].open
    /\ ret.kind = "http500" => IsDriverErr(ret.text)
\* a bulk execute has failed on a constraint part-way and raised the 500
C4_Witness ==
  /\ ret.api = "execute" /\ ret.kind = "http500" /\ ret.text = "integrity"
  /\ \E k \in 1..MaxBulk : bulks[k].by = ret.c
  /\ \E i \in Ids : committed[i] # Absent

\* a statement-issuing call has come back with an error (is_connected: False)
StatementFailed(r) ==
  \/ Failed(r)
  \/ r.api = "is_connected" /\ r.text = "false"

C6_StatementAfterCloseFails ==
  (wasClosed[Local(ret.c)] /\ ret.conn # 0) => StatementFailed(ret)

\* C6: no statement is ever issued on a closed connection: ORM.close leaves
\* the thread without connection and cursor, and the thread's next statement
\* opens a fresh connection and runs on it.
C6_NoStatementOnClosedConnection ==
  /\ \A t \in Threads :
       /\ conn[t] # 0 => conn[t] \in live
       /\ cursor[t] # 0 => cursor[t] \in live
  /\ ret.conn # 0 => ret.conn \in live /\ ret.text \notin {"closed", "false"}
  /\ ret.api = "close" => conn[Local(ret.c)] = 0 /\ cursor[Local(ret.c)] = 0
\* after a close, a read has succeeded on a connection opened since
C6_Witness ==
  /\ wasClosed[Local(ret.c)] /\ ret.api \in {"query", "fetchall"}
  /\ ret.kind = "ok" /\ ret.conn \in live

\* ----------------------------------------------------------- claims C7-C10
\* the caller gave the instance a name and a price
ValidFields(a) == a.name.t \in {"int", "str"} /\ a.price.t \in {"int", "str"}

\* C7: save on a new instance constructed without an id inserts exactly one
\* row, with a payload that omits the id column, and sets the instance's id
\* to the id of the row the insert generated.
C7_SaveWithoutIdentityInserts ==
  (/\ mret.op = "save" /\ mret.prev = "new"
   /\ mret.args.id \in {FieldObj, None} /\ ValidFields(mret.args)) =>
    /\ mret.kind = "ok" /\ mret.path = "insert" /\ ~mret.payloadId
    /\ mret.n1 = mret.n0 + 1
    /\ inst.id.t = "int" /\ inst.id.v \in Keys /\ products[inst.id.v].present

\* C8: a save that directly follows a successful save of the same instance,
\* with no attribute changed in between, performs an UPDATE and no INSERT:
\* the table has as many rows after it as before it.
C8_SecondSaveUpdates ==
  (mret.op = "save" /\ mret.prev = "saved") =>
    /\ mret.kind = "ok" /\ mret.path = "update"
    /\ mret.n1 = mret.n0

C10_SaveWithSuppliedIdInserts ==
  (/\ mret.op = "save" /\ mret.args.id.t \in {"int", "str"}
   /\ ~mret.existed /\ ValidFields(mret.args)) =>
    /\ mret.kind = "ok" /\ mret.path = "insert"
    /\ mret.n1 = mret.n0 + 1
    /\ products[mret.args.id.v].present
    /\ inst.id.t = "int" /\ inst.id.v = mret.args.id.v

\* ---------------------------------------------------------- claims C11-C20
\* the instance has no identity: its id was never set, or is None
NoIdentity(v) == v.t \in {"field", "none"}

\* C11: delete on an instance without identity issues no statement and
\* changes nothing in the table; delete on an instance with an identity
\* removes the row of that id and leaves every other row as it was.
C11_DeleteFrame ==
  [][mret'.op = "delete" =>
       IF NoIdentity(inst.id)
       THEN /\ ~mret'.issued /\ mret'.kind = "ok"
            /\ products' = products
       ELSE /\ mret'.kind = "ok"
            /\ products' = [products EXCEPT ![inst.id.v] = NoRow]]_vars

\* C12: from the empty users table, POST /api/users with a name and an
\* e-mail answers 201 with the created user carrying id 1; the following
\* GET /api/users/1 answers 200 with the same user; DELETE /api/users/1
\* answers 200; the following GET /api/users/1 answers 404.
C12_UserLifecycle ==
  /\ scn.at = "created" => resp.status = 201 /\ resp.user = scn.user
  /\ scn.at = "read" => resp.status = 200 /\ resp.user = scn.user
  /\ scn.at = "deleted" => resp.status = 200
  /\ scn.at = "gone" => resp.status = 404

\* the registrations under the method of the call that the path satisfies
Hits(rs, r) ==
  {i \in 1..Len(rs) : rs[i].method = r.method /\ Satisfies(r.path, rs[i].path)}
Returns(r, e) ==
  /\ ~r.raised
  /\ r.handler = e.handler
  /\ r.params \in Bindings(e.path, r.path)

\* C13: for every registered (method, template) and every path that
\* satisfies the template, resolve returns the handler registered for the
\* pair and the mapping from the template's placeholder names to the
\* matching parts of the path.
C13_ResolveFindsRegistered ==
  [][routes' = routes =>
       \A i \in Hits(routes, resolved') : Returns(resolved', routes[i])]_vars

\* C14: when no route registered under the method matches the whole path
\* (also when a route of another method does), resolve returns the
\* 'no handler' sentinel and raises nothing.
C14_NoMatchGivesSentinel ==
  [][routes' = routes /\ resolved'.method # "none"
       /\ Hits(routes, resolved') = {} =>
       ~resolved'.raised /\ resolved'.handler = "None"]_vars

\* C15: when several patterns registered under the method match the path,
\* resolve returns the handler and the parameters of the one registered
\* first.
C15_FirstRegisteredWins ==
  [][routes' = routes /\ Cardinality(Hits(routes, resolved')) > 1 =>
       \E i \in Hits(routes, resolved') :
         /\ \A j \in Hits(routes, resolved') : i <= j
         /\ Returns(resolved', routes[i])]_vars

\* C16: when route resolution finds no handler for the request's method
\* and path, the request ends with a 404, no handler is invoked and no
\* body is parsed for it.
C16_NoHandlerGives404 ==
  (req.phase = "done" /\ ~req.found) =>
    /\ req.status = 404 /\ req.via = "raised"
    /\ ~req.invoked /\ ~req.parsed
C16_Witness ==
  /\ req.phase = "done" /\ ~req.found
  /\ dispatcher = "legacy" /\ resolved.handler = "None" /\ ~resolved.raised

\* C17: within one request the body is parsed before the handler is
\* invoked if and only if the request's method is POST, PUT or PATCH; for
\* a GET or DELETE request the body is never parsed.
C17_ParsesIffWrite ==
  /\ req.invoked => (req.parsed <=> req.method \in WriteMethods)
  /\ req.method \in {"GET", "DELETE"} => ~req.parsed

\* the request was matched to a route whose template has placeholders
Placeheld == req.route # 0 /\ Placeholders(served[req.route].path) # {}

\* C18: when a request matches a route whose template contains
\* placeholders, the handler is invoked, with path_params the mapping from
\* each placeholder name to the matching part of the request path.
C18_HandlerGetsPathParams ==
  /\ (Placeheld /\ req.invoked) =>
       req.given \in Bindings(served[req.route].path, req.path)
  /\ (Placeheld /\ req.phase = "done" /\ req.exc # BadBody) => req.invoked

\* C19: an HTTP-level exception raised by the handler or by the Data
\* Access Layer during a request leaves the dispatcher with the status and
\* the message it was raised with, never as the generic 500.
C19_HttpExceptionPropagates ==
  (req.phase = "done" /\ req.exc.kind = "http") =>
    /\ req.via = "raised"
    /\ req.status = req.exc.status
    /\ req.payload = [text |-> req.exc.msg]
C19_Witness ==
  /\ req.phase = "done" /\ req.invoked
  /\ req.exc.kind = "http" /\ req.status = 500

\* the handler raised an exception that is not an HTTP-level exception
HandlerFailed ==
  req.phase = "done" /\ req.invoked /\ req.exc.kind = "error"

\* C20: when a handler raises an exception that is not an HTTP-level
\* exception the answer is a 500; in debug mode its payload has exactly the
\* keys error, stack_trace and exception_type, in non-debug mode it is
\* exactly {error: "Internal Server Error"}.
C20_ErrorPayloadKeys ==
  HandlerFailed =>
    /\ req.status = 500
    /\ IF debug
       THEN DOMAIN req.payload = {"error", "stack_trace", "exception_type"}
       ELSE req.payload = [error |-> "Internal Server Error"]
\* C20, amended: in debug mode the payload has exactly the keys error,
\* traceback and type: the exception's message, the formatted traceback
\* and the name of the exception's class.
C20_ErrorPayload ==
  HandlerFailed =>
    /\ req.status = 500
    /\ IF debug
       THEN /\ DOMAIN req.payload = {"error", "traceback", "type"}
            /\ req.payload.error = req.exc.msg
            /\ req.payload.type = req.exc.type
       ELSE req.payload = [error |-> "Internal Server Error"]
C20_Witness ==
  HandlerFailed /\ debug /\ req.exc.type = "KeyError"

\* ---------------------------------------------------------- claims C21-C30
\* C21: a failure to decode the request body, in parse_body for any
\* content type or in json(), surfaces as a 400; never as a 500 and never
\* as an exception of another type.
C21_DecodeFailureIs400 ==
  (req.phase = "done" /\ req.decode # "none") =>
    /\ req.status = 400
    /\ req.via = "raised"
    /\ req.exc.type = "HTTPBadRequest"
C21_Witness ==
  req.phase = "done" /\ req.decode = "json" /\ req.parsed /\ req.status = 400

\* C22: a storage-engine failure (such as a UNIQUE or NOT NULL violation)
\* during a Model Layer write, in save's insert path, in save's update path
\* or in delete, reaches the caller as a 400; the same failure in a direct
\* Data Access Layer execute reaches the caller as a 500.
C22_StorageFailureStatus ==
  uret.cause \in {"integrity", "busy"} =>
    uret.kind = IF uret.op = "execute" THEN "http500" ELSE "http400"

\* C23: insert called with an empty mapping, an empty list, or a list whose
\* first record is empty fails with a validation error, issues no SQL
\* statement and leaves the table unchanged.
C23_EmptyInsertRejected ==
  (ret.api = "insert" /\ ret.arg \in {"empty", "firstempty"}) =>
    /\ ret.kind = "valueerror"
    /\ ~ret.sql
    /\ ret.wrote = {}

\* the rows a hand-written SELECT gives for the calls made on a builder
Known(calls) == \A i \in 1..Len(calls) : calls[i].op \in Ops \cup {""}
Holds(r, kw) ==
  CASE kw.op = "" -> r[kw.field] = kw.value
    [] kw.op = "gt" -> r[kw.field] > kw.value
    [] kw.op = "lt" -> r[kw.field] < kw.value
    [] kw.op = "gte" -> r[kw.field] >= kw.value
    [] kw.op = "lte" -> r[kw.field] <= kw.value
    [] kw.op = "contains" -> Like(<<"%">> \o kw.value \o <<"%">>, r[kw.field])
    [] kw.op = "in" -> \E k \in 1..Len(kw.value) : r[kw.field] = kw.value[k]
Matching(calls) == {r \in People : \A i \in 1..Len(calls) : Holds(r, calls[i])}
RECURSIVE Precedes(_, _, _)
Precedes(r1, r2, orders) ==
  IF orders = << >> THEN r1.id < r2.id
  ELSE LET o == Head(orders)
       IN IF r1[o.name] = r2[o.name] THEN Precedes(r1, r2, Tail(orders))
          ELSE IF o.minus THEN r1[o.name] > r2[o.name]
          ELSE r1[o.name] < r2[o.name]
\* the ids of the matching rows, in order, offset rows skipped, limit kept
Expected(q) ==
  LET hit == Matching(q.calls)
      skip == IF q.offset = None THEN 0 ELSE q.offset.v
      rank(r) == Cardinality({x \in hit : Precedes(x, r, q.orders)}) + 1
      kept == {r \in hit :
                 /\ rank(r) > skip
                 /\ q.limit # None => rank(r) <= skip + q.limit.v}
  IN [i \in 1..Cardinality(kept) |->
        (CHOOSE r \in kept : rank(r) = skip + i).id]

\* C24: for any chain of filter, order_by, limit and offset calls on one
\* builder, all() returns exactly the rows satisfying the conjunction of the
\* conditions of every filter call, sorted by the order_by fields in call
\* order ('-' for descending), offset rows skipped, truncated to limit.
C24_AllIsTheSelect ==
  (qret.op = "all" /\ Known(qs[qret.b].calls)) =>
    /\ qret.kind = "ok"
    /\ qret.rows = Expected(qs[qret.b])

\* C25: count() returns the number of rows matching the accumulated WHERE
\* conditions, whatever limit and offset are set on the builder.
C25_CountIgnoresWindow ==
  (qret.op = "count" /\ Known(qs[qret.b].calls)) =>
    /\ qret.kind = "ok"
    /\ qret.n = Cardinality(Matching(qs[qret.b].calls))

\* C26: after filter calls with bare names and gt, lt, gte, lte, contains,
\* in, the WHERE clause has as many ? as there are bound parameters, the
\* parameters of the i-th condition are those of the i-th keyword, and an
\* "in" over k elements has k placeholders and k parameters.
C26_PlaceholdersMatchParams ==
  \A b \in Builders :
    Known(qs[b].calls) =>
      /\ Marks(qs[b].where) = Len(qs[b].params)
      /\ Len(qs[b].where) = Len(qs[b].calls)
      /\ \A i \in 1..Len(qs[b].calls) :
           LET kw == qs[b].calls[i]
               bound == BoundTo(qs[b].where, qs[b].params, i)
           IN CASE kw.op = "in" ->
                     qs[b].where[i].n = Len(kw.value) /\ bound = kw.value
                [] kw.op = "contains" ->
                     bound = << <<"%">> \o kw.value \o <<"%">> >>
                [] OTHER -> bound = <<kw.value>>
C26_Witness ==
  \E b \in Builders :
    /\ Len(qs[b].calls) = MaxChain
    /\ Known(qs[b].calls)
    /\ qs[b].calls[1].op = "in" /\ Len(qs[b].calls[1].value) > 1
    /\ qs[b].calls[MaxChain].op = "contains"

\* C27: first() runs the builder's query with limit 1 and returns the first
\* element all() would return for the same filters, ordering and offset,
\* or none when there is no such row.
C27_FirstIsHeadOfAll ==
  qret.op = "first" =>
    /\ qs[qret.b].limit = PyInt(1)
    /\ \A lim \in 1..MaxLimit :
         LET a == all([qs[qret.b] EXCEPT !.limit = PyInt(lim)])
         IN /\ qret.kind = a.kind
            /\ a.kind = "ok" =>
                 qret.rows = IF a.rows = << >> THEN << >> ELSE <<Head(a.rows)>>
C27_Witness ==
  /\ qret.op = "first" /\ qret.kind = "ok" /\ qret.rows # << >>
  /\ qs[qret.b].offset = PyInt(MaxOffset)
  /\ qs[qret.b].calls # << >> /\ qs[qret.b].orders # << >>
C27_WitnessNone ==
  qret.op = "first" /\ qret.kind = "ok" /\ qret.rows = << >>

\* C30: every Model.objects() returns a new builder with empty filter,
\* order, limit and offset state, bound to the calling model type; a
\* condition added to one builder never appears in another builder's query.
C30_BuildersAreSeparate ==
  /\ qret.op = "objects" =>
       /\ qs[qret.b].where = << >> /\ qs[qret.b].params = << >>
       /\ qs[qret.b].order_by = << >>
       /\ qs[qret.b].limit = None /\ qs[qret.b].offset = None
       /\ qs[qret.b].model_class = "Person"
  /\ \A b \in Builders :
       /\ Len(qs[b].where) <= Len(qs[b].calls)
       /\ \A i \in 1..Len(qs[b].where) :
            \E j \in 1..Len(qs[b].calls) :
              qs[b].where[i] \in
                {Conditions(qs[b].calls[j])[k] :
                   k \in 1..Len(Conditions(qs[b].calls[j]))}
C30_Witness ==
  \E b, c \in Builders :
    /\ qs[b].made /\ qs[c].made
    /\ qs[b].where # << >> /\ qs[c].where = << >>
    /\ qret.op = "all" /\ qret.b = c /\ qret.n = Cardinality(People)

\* C28: to_dict() returns a mapping whose keys are exactly the declared
\* field names set on the instance and whose values are the instance's
\* values for them; never a non-declared attribute, never a value that is
\* not the instance's own data.
C28_ToDictIsOwnData ==
  uret.op = "to_dict" =>
    /\ DOMAIN uret.dict = {f \in UserCols : uinst[f] # FieldObj}
    /\ \A f \in DOMAIN uret.dict :
         uret.dict[f] = uinst[f] /\ uret.dict[f] # FieldObj

\* C29: create_table is idempotent: a repeat call with the same table name
\* and column definitions raises no error and leaves the same schema and
\* rows as a single call; and for every column whose definition has a
\* UNIQUE or PRIMARY KEY marker a supporting index exists after the call.
C29_CreateTableIdempotent ==
  sret.op = "create_table" =>
    /\ sret.kind = "ok"
    /\ sret.repeat => schema = sret.before
    /\ \A c \in DOMAIN schema.cols :
         Marked(schema.cols[c]) => c \in schema.named \cup schema.auto

\* C31: a {name} placeholder matches one or more characters other than '/':
\* a path whose segment at the placeholder is empty matches the route
\* neither in Router.resolve nor in the dispatcher's route table, and a
\* placeholder never matches across a '/'.
C31_PlaceholderNonEmpty ==
  /\ resolved.handler # "None" =>
       \A n \in DOMAIN resolved.params :
         resolved.params[n] \in Parts(resolved.path)
  /\ req.phase # "idle" => Satisfies(req.path, served[req.route].path)

\* C32: registering the same (method, path_template) pair a second time
\* replaces the first registration without error: the route table keeps a
\* single entry for the pair and resolve returns the handler registered
\* last for every path that matches it.
C32_ReRegistrationReplaces ==
  [][/\ \A i, j \in 1..Len(routes') :
          (routes'[i].method = routes'[j].method
             /\ routes'[i].path = routes'[j].path) => i = j
     /\ (Len(routes') = Len(routes) /\ routes' # routes) =>
          \A i \in 1..Len(routes) :
            routes'[i] # routes[i] =>
              \A p \in Paths :
                Satisfies(p, routes'[i].path) =>
                  LET r == resolve(routes', routes'[i].method, p)
                  IN ~r.raised /\ r.handler = routes'[i].handler]_vars

\* C33: the 'Failed to save record' outcome of save() is unreachable: once
\* save() has completed its insert or update, its re-read of the row by the
\* instance's id finds a row, in every interleaving of save() and delete()
\* calls of the execution contexts on the same table.
C33_ReReadFindsRow == \A c \in RaceCtx : ~race[c].lost

\* C34: a model type's metadata is computed on the type's first use and
\* returned unchanged on every later use; for every model type, also one
\* that subclasses a type whose metadata was computed earlier, table_name
\* is the name the type overrides or else its own lower-cased type name,
\* and fields are the fields the type declares.
C34_MetaIsTheTypesOwn ==
  mlast.op # "none" =>
    /\ mlast.seen.set
    /\ mlast.seen = mfirst[mlast.cls]
    /\ mlast.seen.table_name =
         IF Declares(mlast.cls).Meta /\ Declares(mlast.cls).table_name # "none"
         THEN Declares(mlast.cls).table_name ELSE Lower(mlast.cls)
    /\ mlast.seen.fields = Declares(mlast.cls).fields

\* C35: on one request the body is decoded at most once: after parse_body
\* or json() has decoded a JSON body, whatever JSON value it holds, every
\* later json() call returns the cached value without decoding again.
C35_DecodedAtMostOnce == sreq.decoded <= 1

\* C36: every operation releases the mutex before it returns or raises and
\* none acquires it while its own context holds it: the mutex is held
\* exactly by a context inside "with self.lock:", it is free whenever no
\* operation is in progress, and a context waiting for it eventually
\* acquires it provided each statement finishes.
C36_HeldOnlyInBlock ==
  /\ \A c \in OrmCtx : lock = c <=> pc[c] = "stmt"
  /\ lock \in OrmCtx \cup {"free"}
  /\ (\A c \in OrmCtx : pc[c] = "idle") => lock = "free"
  /\ ret.kind # "none" => lock # ret.c
C37_FilterAddsInStep ==
  [][\A b \in Builders :
       Marks(qs'[b].where) - Marks(qs[b].where)
         = Len(qs'[b].params) - Len(qs[b].params)]_vars

\* C38: all(), first() and count() leave the builder's WHERE fragments,
\* bound parameters, ORDER BY fragments and offset unchanged; first()
\* changes only the limit, setting it to 1, all() and count() leave the
\* limit alone, so the limit first() set is the one a later all() or
\* first() runs with.
C38_Terminal(b, was, now, r) ==
  /\ now.where = was.where /\ now.params = was.params
  /\ now.order_by = was.order_by /\ now.offset = was.offset
  /\ now.model_class = was.model_class
  /\ now.limit = IF r.op = "first" THEN PyInt(1) ELSE was.limit
  /\ (r.op = "all" /\ r.kind = "ok" /\ was.limit = PyInt(1)) =>
       Len(r.rows) <= 1
C38_TerminalCallsFrame ==
  [][qret'.op \in {"all", "first", "count"} =>
       /\ C38_Terminal(qret'.b, qs[qret'.b], qs'[qret'.b], qret')
       /\ \A c \in Builders \ {qret'.b} : qs'[c] = qs[c]]_vars
\* first() has run on a builder with two conditions, an ordering, an
\* offset and a limit other than 1 set before it
C38_Witness ==
  /\ qret.op = "first" /\ qret.kind = "ok"
  /\ Len(qs[qret.b].where) = 2 /\ Len(qs[qret.b].params) > 2
  /\ qs[qret.b].order_by # << >> /\ qs[qret.b].offset = PyInt(0)

\* the response body carries the driver's error text
Leaks(payload) == \E k \in DOMAIN payload : payload[k] = DriverText
\* C39: in non-debug mode no response delivered for a failing request
\* contains the text of a database driver error, whether the storage
\* failure travels as an HTTP-level exception or as any other exception.
C39_NoDriverText ==
  (req.phase = "done" /\ ~debug /\ req.via # "handler") =>
    ~Leaks(req.payload)

====
